---- MODULE Spec2Model ----
(***************************************************************************)
(* State-machine model of the E-Trans backend: the authorization guard     *)
(* (server/middleware/auth.ts), the ledger routes (server/routes/          *)
(* finance.ts) and the shipment routes (server/routes/shipments.ts).       *)
(*                                                                         *)
(* Every request is a process held in a slot of req.  A handler is cut at  *)
(* its storage round trips (the awaits on prisma): one action is the       *)
(* synchronous code that follows the previous round trip together with     *)
(* the next storage call, which the store executes atomically.             *)
(***************************************************************************)
EXTENDS Integers, FiniteSets, Sequences, TLC

\* ------------------------------------------------------------------ bounds
MaxTime   == 1      \* the clock runs over 0..MaxTime
MaxAmount == 2      \* amounts of the request bodies range over 0..MaxAmount
MaxExp    == 3      \* expense ids are 1..MaxExp
MaxShip   == 3      \* shipment ids are 1..MaxShip
MaxDoc    == 1      \* document ids are 1..MaxDoc
NumReq    == 2      \* requests in flight at the same time
MaxReq    == 2      \* requests admitted in one behaviour
MaxClock  == 3      \* the clock of the session manager runs over 0..MaxClock
MaxSess   == 3      \* rows of table RefreshToken
MaxShipReq == 3     \* requests the shipment routes admit in one behaviour
NumCalls  == 3      \* calls the page makes on its ApiClient in one behaviour
MaxAuth   == 3      \* requests the session manager admits in one behaviour
\* the durations of the session manager, in ticks of the clock
LockTime    == 2    \* the lock of an account (15 minutes)
CodeLife    == 1    \* a verification code (15 minutes)
AccessLife  == 1    \* an access token (15m)
RefreshLife == 2    \* a refresh token and its stored row (7d)

\* --------------------------------------------------------------- constants
NoDate == -1        \* a null paidAt
NoId   == 0         \* no target id
MaxFailed == 5      \* newFailedAttempts >= 5 locks the account
NoCode == ""        \* a null verificationCode
Codes  == {"c1", "c2"}   \* the verification codes generateVerificationCode draws

Roles == {"DIRECTOR", "ACCOUNTANT", "AGENT", "CLIENT"}

ExpenseType == {"PROVISION", "DISBURSEMENT"}

Companies == {"A", "B"}
UserIds   == {"dirA", "agtA", "offA", "accB", "cliB", "newB"}
Deleted   == "gone"      \* the id of a user whose row is no longer stored
ShipIds   == {1, 2}      \* the shipments of the initial state
ExpIds    == 1..MaxExp
Times     == 0..MaxTime
Reqs      == 1..NumReq

\* the role presets of the guard
requireDirector   == {"DIRECTOR"}
requireAccountantOrAgent == {"DIRECTOR", "ACCOUNTANT", "AGENT"}   \* a variant
requireAccountant == {"DIRECTOR", "ACCOUNTANT"}
requireAgent      == {"DIRECTOR", "ACCOUNTANT", "AGENT"}

VARIABLES
    now,        \* the server clock (new Date())
    users,      \* table User: id -> [role, companyId, isActive, emailVerified,
                \*   failedAttempts, lockedUntil, lastLogin, verificationCode, codeExpiresAt]
    sessions,   \* table RefreshToken, in insertion order: [token, userId, expiresAt, revokedAt]
    companies,  \* table Company: the ids
    shipments,  \* table Shipment: id -> [companyId, status]
    nextShip,   \* the next fresh shipment id
    documents,  \* table Document: id -> [shipmentId]
    nextDoc,    \* the next fresh document id
    timeline,   \* table TimelineEvent, in insertion order: [shipmentId, action, userId]
    expenses,   \* table Expense: id -> [shipmentId, type, amount, paid, paidAt]
    nextExp,    \* the next fresh expense id
    req,        \* the requests in flight, and the last response of each slot
    budget,     \* requests still to be admitted
    client      \* the browser's ApiClient: [isRefreshing, refreshQueue, location, call],
                \*   call: id -> [pc, isRetry, sent, status, code]

vars ==
    <<now, users, sessions, companies, shipments, nextShip, documents, nextDoc, timeline, expenses, nextExp,
      req, budget, client>>

shipStore == <<shipments, nextShip, documents, nextDoc, timeline>>

ledgerStore == <<expenses, nextExp>>

authStore == <<users, sessions, companies>>

store == <<authStore, shipStore, ledgerStore>>

\* ------------------------------------------------------------ credentials
\* A presented token: the secret it is signed with, the userId, role and
\* companyId it carries (a refresh token carries the userId alone) and its exp
\* claim.  secret "NONE" is a malformed or forged token.
NoToken ==
    [present |-> FALSE, secret |-> "NONE", userId |-> "dirA", role |-> "",
     companyId |-> "", exp |-> 0]

Malformed == [NoToken EXCEPT !.present = TRUE]

\* the role and the company of the users of the initial state
SeedClaims(u) ==
    [role |-> CASE u = "dirA" -> "DIRECTOR" [] u \in {"agtA", "offA"} -> "AGENT"
                [] u \in {"accB", "newB"} -> "ACCOUNTANT" [] OTHER -> "CLIENT",
     companyId |-> IF u \in {"dirA", "agtA", "offA"} THEN "A" ELSE "B"]

\* jwt.sign with each secret of S for each user of U and each exp of E: access
\* tokens carry the role and the company the user had in the initial state
SignedTokens(S, U, E) ==
    {[present |-> TRUE, secret |-> sec, userId |-> u,
      role |-> IF sec = "JWT" THEN SeedClaims(u).role ELSE "",
      companyId |-> IF sec = "JWT" THEN SeedClaims(u).companyId ELSE "",
      exp |-> e] : sec \in S, u \in U, e \in E}

\* the tokens requests present: none, a malformed one, an unexpired access token
\* of every user and of a deleted one, and access and refresh tokens of one user
\* with every expiry
Tokens ==
    {NoToken, Malformed}
    \cup SignedTokens({"JWT"}, UserIds \cup {Deleted}, {MaxTime + 1})
    \cup SignedTokens({"JWT", "REFRESH"}, {"dirA"}, 0..(MaxTime + 1))

\* the sessions of the two users who keep the books of the two companies
LedgerCredentials ==
    {<<c, NoToken>> : c \in SignedTokens({"JWT"}, {"dirA", "accB"}, {MaxTime + 1})}

\* <<cookie, bearer header>> of a request
Credentials ==
    {<<c, NoToken>> : c \in Tokens}
    \cup {<<NoToken, b>> : b \in Tokens}
    \cup {<<Malformed, b>> : b \in {t \in Tokens : t.secret = "JWT"}}

\* A valid access credential: a token signed with the access secret and not yet
\* expired.
ValidAccess(token, t) == token.present /\ token.secret = "JWT" /\ t < token.exp

\* variant of VerifyJwt: one secret signs both kinds of token
VerifyJwtOneSecret(token, secret, t) ==
    IF t >= token.exp THEN "TOKEN_EXPIRED" ELSE "ok"

\* variant of VerifyJwt: the exp claim is not looked at
VerifyJwtIgnoreExpiration(token, secret, t) ==
    IF token.secret # secret THEN "INVALID_TOKEN" ELSE "ok"

\* variant of TokenOf: the Authorization header is read before the cookie
TokenOfHeaderFirst(cookie, bearer) == IF bearer.present THEN bearer ELSE cookie

\* jwt.verify(token, secret): the signature first, the expiry second.
VerifyJwt(token, secret, t) ==
    IF token.secret # secret THEN "INVALID_TOKEN"
    ELSE IF t >= token.exp THEN "TOKEN_EXPIRED"
    ELSE "ok"

\* req.cookies?.accessToken || req.headers.authorization?.replace('Bearer ', '')
TokenOf(cookie, bearer) == IF cookie.present THEN cookie ELSE bearer

NoUser ==
    [found |-> FALSE, id |-> "dirA", role |-> "CLIENT", companyId |-> "A",
     isActive |-> FALSE, emailVerified |-> FALSE]

\* prisma.user.findUnique({ where: { id } })
FindUser(us, id) ==
    IF id \in DOMAIN us
    THEN [found |-> TRUE, id |-> id, role |-> us[id].role,
          companyId |-> us[id].companyId, isActive |-> us[id].isActive,
          emailVerified |-> us[id].emailVerified]
    ELSE NoUser

\* variant of AttachedUser: the role and the company are those of the token
UserOfClaims(us, token) ==
    IF token.userId \in DOMAIN us
    THEN [FindUser(us, token.userId) EXCEPT !.role = token.role,
                                           !.companyId = token.companyId]
    ELSE NoUser

\* the user auth fetches for decoded.userId, from whom req.user is filled
AttachedUser(us, token) == FindUser(us, token.userId)

\* the checks of auth on the fetched user
GuardCode(u) ==
    IF ~u.found THEN "USER_NOT_FOUND"
    ELSE IF ~u.isActive THEN "ACCOUNT_DISABLED"
    ELSE IF ~u.emailVerified THEN "EMAIL_NOT_VERIFIED"
    ELSE "ok"

\* ------------------------------------------------------------------ routes
LedgerReads  == {"listExpenses", "companySummary", "shipmentSummary"}
LedgerWrites == {"createExpense", "updateExpense", "payExpense", "deleteExpense"}
LedgerKinds  == LedgerReads \cup LedgerWrites

ShipReads  == {"getShipment"}
ShipWrites == {"createShipment", "updateShipment", "archiveShipment",
               "addDocument", "removeDocument"}
ShipKinds  == ShipReads \cup ShipWrites

Kinds == LedgerKinds \cup ShipKinds

\* the roles a route admits: router.use(auth) alone admits every role
RequiredRoles(kind) ==
    IF kind \in LedgerWrites THEN requireAccountant
    ELSE IF kind \in ShipWrites THEN requireAgent
    ELSE Roles

\* requireRole(...roles)
RoleOk(kind, u) == u.role \in RequiredRoles(kind)

\* ------------------------------------------------------------------ ledger
RECURSIVE SumAmount(_, _)
SumAmount(es, S) ==
    IF S = {} THEN 0
    ELSE LET i == CHOOSE x \in S : TRUE
         IN  es[i].amount + SumAmount(es, S \ {i})

OfShipment(es, sid) == {i \in DOMAIN es : es[i].shipmentId = sid}

\* the loop of POST /expenses/:id/pay over expense.shipment.expenses
PayBalance(es, sid) ==
    LET provisions == SumAmount(es, {i \in OfShipment(es, sid) : es[i].type = "PROVISION"})
        paidDisbursements ==
            SumAmount(es, {i \in OfShipment(es, sid) :
                             es[i].type # "PROVISION" /\ es[i].paid})
    IN  provisions - paidDisbursements

\* variant of ShipmentSummary: the balance subtracts every disbursement
ShipmentSummaryAllDisbursements(es, sid) ==
    LET provisions == SumAmount(es, {i \in OfShipment(es, sid) : es[i].type = "PROVISION"})
        disbursements == SumAmount(es, {i \in OfShipment(es, sid) : es[i].type # "PROVISION"})
        paid == SumAmount(es, {i \in OfShipment(es, sid) :
                                 es[i].type # "PROVISION" /\ es[i].paid})
    IN  [provisions |-> provisions, disbursements |-> disbursements, paid |-> paid,
         unpaid |-> disbursements - paid, balance |-> provisions - disbursements]

\* the loop of GET /shipment/:shipmentId and its response
ShipmentSummary(es, sid) ==
    LET provisions == SumAmount(es, {i \in OfShipment(es, sid) : es[i].type = "PROVISION"})
        disbursements == SumAmount(es, {i \in OfShipment(es, sid) : es[i].type # "PROVISION"})
        paid == SumAmount(es, {i \in OfShipment(es, sid) :
                                 es[i].type # "PROVISION" /\ es[i].paid})
    IN  [provisions |-> provisions, disbursements |-> disbursements, paid |-> paid,
         unpaid |-> disbursements - paid, balance |-> provisions - paid]

\* variant of OfCompany: the join through the shipment's company is dropped
OfAnyCompany(ss, es, cid) == DOMAIN es

\* where: { shipment: { companyId } }
OfCompany(ss, es, cid) ==
    {i \in DOMAIN es : es[i].shipmentId \in DOMAIN ss
                       /\ ss[es[i].shipmentId].companyId = cid}

\* the loop of GET /summary and its response
CompanySummary(ss, es, cid) ==
    LET mine == OfCompany(ss, es, cid)
        totalProvisions == SumAmount(es, {i \in mine : es[i].type = "PROVISION"})
        totalDisbursements == SumAmount(es, {i \in mine : es[i].type # "PROVISION"})
        paidDisbursements ==
            SumAmount(es, {i \in mine : es[i].type # "PROVISION" /\ es[i].paid})
    IN  [provisions |-> totalProvisions, disbursements |-> totalDisbursements,
         paid |-> paidDisbursements,
         unpaid |-> totalDisbursements - paidDisbursements,
         balance |-> totalProvisions - paidDisbursements]

\* prisma.expense.findFirst({ where: { id, shipment: { companyId } } })
FindExpense(ss, es, id, cid) == id \in OfCompany(ss, es, cid)

\* prisma.shipment.findFirst({ where: { id, companyId } })
FindShipment(ss, sid, cid) == sid \in DOMAIN ss /\ ss[sid].companyId = cid

\* ---------------------------------------------------------------- requests
ExpenseFields == {"shipmentId", "type", "amount", "paid", "paidAt"}

NoExpense ==
    [shipmentId |-> NoId, type |-> "PROVISION", amount |-> 0, paid |-> FALSE,
     paidAt |-> NoDate]

\* A JSON body over the columns of Expense: has names the keys it carries.
NoBody ==
    [has |-> {}, shipmentId |-> NoId, type |-> "PROVISION", amount |-> 0,
     paid |-> FALSE, paidAt |-> NoDate]

\* shipment ids a request may name: the stored ones and one that is not stored
NamedShipIds == 1..MaxShip

\* bodies of PATCH /expenses/:id: any subset of columns passes ({ ...req.body })
PatchBodies ==
    {NoBody}
    \cup {[NoBody EXCEPT !.has = {"shipmentId"}, !.shipmentId = s] : s \in NamedShipIds}
    \cup {[NoBody EXCEPT !.has = {"type"}, !.type = t] : t \in ExpenseType}
    \cup {[NoBody EXCEPT !.has = {"amount"}, !.amount = a] : a \in 0..MaxAmount}
    \cup {[NoBody EXCEPT !.has = {"paid"}, !.paid = b] : b \in BOOLEAN}
    \cup {[NoBody EXCEPT !.has = {"paidAt"}, !.paidAt = t] : t \in Times \cup {NoDate}}
    \cup {[NoBody EXCEPT !.has = {"paid", "paidAt"}, !.paid = TRUE, !.paidAt = t] :
            t \in Times}

\* bodies of POST /expenses that carry every required key of createExpenseSchema
CreateBodies ==
    {[NoBody EXCEPT !.has = {"shipmentId", "type", "amount"},
                    !.shipmentId = s, !.type = t, !.amount = a] :
        s \in NamedShipIds, t \in ExpenseType, a \in 0..MaxAmount}

\* prisma.expense.update({ data }): the row with the keys of data overwritten
ApplyPatch(e, b) ==
    [shipmentId |-> IF "shipmentId" \in b.has THEN b.shipmentId ELSE e.shipmentId,
     type       |-> IF "type" \in b.has THEN b.type ELSE e.type,
     amount     |-> IF "amount" \in b.has THEN b.amount ELSE e.amount,
     paid       |-> IF "paid" \in b.has THEN b.paid ELSE e.paid,
     paidAt     |-> IF "paidAt" \in b.has THEN b.paidAt ELSE e.paidAt]

\* updateData of PATCH /expenses/:id
UpdateData(b, expense, t) ==
    IF "paid" \in b.has /\ b.paid = TRUE /\ ~expense.paid
    THEN [b EXCEPT !.has = b.has \cup {"paidAt"}, !.paidAt = t]
    ELSE b

NoSummary ==
    [provisions |-> 0, disbursements |-> 0, paid |-> 0, unpaid |-> 0, balance |-> 0]

\* the lifecycle of a shipment
ShipmentStatus ==
    {"DRAFT", "PENDING", "ARRIVED", "DDI_OBTAINED", "DECLARATION_FILED",
     "LIQUIDATION_ISSUED", "CUSTOMS_PAID", "BAE_ISSUED", "TERMINAL_PAID", "DO_RELEASED",
     "EXIT_NOTE_ISSUED", "IN_DELIVERY", "DELIVERED", "INVOICED", "CLOSED", "ARCHIVED"}

\* the status of a shipment created without one: the default of the column
DefaultStatus == {"DRAFT", "PENDING"}

\* A JSON body over the columns of Shipment.
NoPatch == [has |-> {}, status |-> "", companyId |-> "A"]

\* bodies of PATCH /shipments/:id: any subset of columns passes ({ ...req.body })
ShipPatchBodies ==
    {NoPatch}
    \cup {[NoPatch EXCEPT !.has = {"status"}, !.status = st] :
            st \in {"PENDING", "ARRIVED", "CLOSED", "ARCHIVED"}}
    \cup {[NoPatch EXCEPT !.has = {"companyId"}, !.companyId = c] : c \in Companies}

\* prisma.shipment.update({ data }): the row with the keys of data overwritten
ApplyShipPatch(sh, b) ==
    [companyId |-> IF "companyId" \in b.has THEN b.companyId ELSE sh.companyId,
     status    |-> IF "status" \in b.has THEN b.status ELSE sh.status,
     trackingNumber |-> sh.trackingNumber]

\* `TR-${timestamp}-${random}`: the millisecond and the four characters drawn
generateTrackingNumber(ts, rnd) == [ts |-> ts, rnd |-> rnd]

\* what Math.random().toString(36).substring(2, 6) can give
Suffixes == {"AAAA", "BBBB"}

\* if (req.body.status && req.body.status !== shipment.status)
StatusChanged(b, was) == "status" \in b.has /\ b.status # "" /\ b.status # was

\* ---------------------------------------------------------------- accounts
\* Every user's email is the user's id; two more strings are no user's email.
NoEmail  == "nobody"     \* a well-formed email of no user
NewEmail == "regC"       \* a well-formed email of no user of the initial state
BadEmail == "bad"        \* fails z.string().email()

\* the spellings of NewEmail and of newB's email in capitals
Capitals == {"REGC", "NEWB"}

\* email.toLowerCase()
toLowerCase(email) ==
    IF email = "REGC" THEN NewEmail
    ELSE IF email = "NEWB" THEN "newB"
    ELSE email

NoAccount ==
    [found |-> FALSE, id |-> NoEmail, role |-> "CLIENT", companyId |-> "A",
     isActive |-> FALSE, emailVerified |-> FALSE, failedAttempts |-> 0,
     lockedUntil |-> NoDate, lastLogin |-> NoDate, verificationCode |-> NoCode,
     codeExpiresAt |-> NoDate]

\* prisma.user.findUnique({ where: { email } })
FindUserByEmail(us, email) ==
    IF email \in DOMAIN us
    THEN [found |-> TRUE, id |-> email, role |-> us[email].role,
          companyId |-> us[email].companyId, isActive |-> us[email].isActive,
          emailVerified |-> us[email].emailVerified,
          failedAttempts |-> us[email].failedAttempts,
          lockedUntil |-> us[email].lockedUntil, lastLogin |-> us[email].lastLogin,
          verificationCode |-> us[email].verificationCode,
          codeExpiresAt |-> us[email].codeExpiresAt]
    ELSE NoAccount

\* generateTokens, and the row login and verify-email store for the refresh token
generateTokens(userId, role, companyId, t) ==
    [accessToken  |-> [present |-> TRUE, secret |-> "JWT", userId |-> userId,
                       role |-> role, companyId |-> companyId,
                       exp |-> t + AccessLife],
     refreshToken |-> [present |-> TRUE, secret |-> "REFRESH", userId |-> userId,
                       role |-> "", companyId |-> "",
                       exp |-> t + RefreshLife]]

\* the tokens of a user of the initial state
SeedTokens(u, t) ==
    generateTokens(u, SeedClaims(u).role, SeedClaims(u).companyId, t)

RefreshRow(token, userId, t) ==
    [token |-> token, userId |-> userId, expiresAt |-> t + RefreshLife,
     revokedAt |-> NoDate]

\* the data of a calculate-customs response, before there is one
NoDuties ==
    [cifValue |-> 0, cifCurrency |-> "", exchangeRate |-> 0, cifValueGnf |-> 0,
     dd |-> 0, rtl |-> 0, pc |-> 0, ca |-> 0, tvaBase |-> 0, tva |-> 0, bfu |-> 0,
     totalDuties |-> 0]

Idle ==
    [pc |-> "idle", kind |-> "none", user |-> NoUser, id |-> NoId, doc |-> NoId,
     body |-> NoBody, snap |-> NoExpense, bal |-> 0, patch |-> NoPatch, was |-> "",
     status |-> 0, code |-> "", ids |-> <<>>, sum |-> NoSummary,
     email |-> NoEmail, ok |-> FALSE, vcode |-> NoCode, account |-> NoAccount,
     access |-> NoToken, refresh |-> NoToken, mins |-> 0, duties |-> NoDuties,
     good |-> FALSE,     \* history: the request presented a well-signed, unexpired access token
     overlap |-> {}]     \* history: the pay requests that had read and not yet written when this one read

\* a response: what stays of a request once it is answered
Done(kind, status, code) ==
    [Idle EXCEPT !.pc = "done", !.kind = kind, !.status = status, !.code = code]

\* the request passed auth and the requireRole of the route it is for
Admitted(r, kind) ==
    /\ req[r].pc = "authed"
    /\ GuardCode(req[r].user) = "ok"
    /\ RoleOk(kind, req[r].user)

\* orderBy: { createdAt: 'desc' }: ids are handed out in creation order
RECURSIVE SortDesc(_)
SortDesc(S) ==
    IF S = {} THEN <<>>
    ELSE LET m == CHOOSE x \in S : \A y \in S : y <= x
         IN  <<m>> \o SortDesc(S \ {m})

\* skip / take
Page(q, skip, take) ==
    IF skip >= Len(q) THEN <<>>
    ELSE SubSeq(q, skip + 1, IF skip + take > Len(q) THEN Len(q) ELSE skip + take)

\* ----------------------------------------------------------------- actions
Tick ==
    /\ now < MaxTime
    /\ now' = now + 1
    /\ UNCHANGED <<client, store, req, budget>>

\* auth, up to its storage call: the token is taken and verified, the user read
Arrive(r, cookie, bearer) ==
    /\ req[r].pc \in {"idle", "done"}
    /\ \A q \in Reqs : q < r => req[q].pc \notin {"idle", "done"}
    /\ budget > 0
    /\ budget' = budget - 1
    /\ LET token == TokenOf(cookie, bearer)
           v == IF ~token.present THEN "NO_TOKEN" ELSE VerifyJwt(token, "JWT", now)
       IN  req' = [q \in Reqs |->
                IF q # r THEN [req[q] EXCEPT !.overlap = @ \ {r}]
                ELSE IF v = "ok"
                THEN [Idle EXCEPT !.pc = "authed",
                                  !.user = AttachedUser(users, token),
                                  !.good = ValidAccess(token, now)]
                ELSE [Done("none", 401, v) EXCEPT !.good = ValidAccess(token, now)]]
    /\ UNCHANGED <<client, now, store>>

\* auth after its storage call, then requireRole: the rejections
Reject(r, k) ==
    /\ req[r].pc = "authed"
    /\ LET u == req[r].user
       IN  /\ GuardCode(u) # "ok" \/ ~RoleOk(k, u)
           /\ req' = [req EXCEPT ![r] =
                IF GuardCode(u) # "ok" THEN Done("none", 401, GuardCode(u))
                ELSE [Done(k, 403, "FORBIDDEN") EXCEPT !.user = u]]
    /\ UNCHANGED <<client, now, store, budget>>

\* GET /api/finance/expenses
ListExpenses(r, hasShipmentId, shipmentId, hasPaid, paid, page, limit) ==
    /\ Admitted(r, "listExpenses")
    /\ LET cid == req[r].user.companyId
           hit == {i \in OfCompany(shipments, expenses, cid) :
                     /\ hasShipmentId => expenses[i].shipmentId = shipmentId
                     /\ hasPaid => expenses[i].paid = paid}
       IN  req' = [req EXCEPT ![r] =
                [Done("listExpenses", 200, "OK") EXCEPT
                    !.user = req[r].user,
                    !.id = IF hasShipmentId THEN shipmentId ELSE NoId,
                    !.ids = Page(SortDesc(hit), (page - 1) * limit, limit),
                    !.bal = Cardinality(hit)]]
    /\ UNCHANGED <<client, now, store, budget>>

\* GET /api/finance/summary
GetSummary(r) ==
    /\ Admitted(r, "companySummary")
    /\ req' = [req EXCEPT ![r] =
            [Done("companySummary", 200, "OK") EXCEPT
                !.sum = CompanySummary(shipments, expenses, req[r].user.companyId)]]
    /\ UNCHANGED <<client, now, store, budget>>

\* GET /api/finance/shipment/:shipmentId
GetShipmentFinance(r, sid) ==
    /\ Admitted(r, "shipmentSummary")
    /\ req' = [req EXCEPT ![r] =
            IF ~FindShipment(shipments, sid, req[r].user.companyId)
            THEN [Done("shipmentSummary", 404, "NOT_FOUND") EXCEPT
                    !.user = req[r].user, !.id = sid]
            ELSE [Done("shipmentSummary", 200, "OK") EXCEPT
                    !.user = req[r].user, !.id = sid, !.sum = ShipmentSummary(expenses, sid),
                    !.ids = SortDesc(OfShipment(expenses, sid))]]
    /\ UNCHANGED <<client, now, store, budget>>

\* POST /api/finance/expenses: parse, then the shipment lookup
CreateExpenseRead(r, b) ==
    /\ Admitted(r, "createExpense")
    /\ req' = [req EXCEPT ![r] =
            IF ~(b.amount > 0) THEN Done("createExpense", 400, "VALIDATION")
            ELSE IF ~FindShipment(shipments, b.shipmentId, req[r].user.companyId)
            THEN Done("createExpense", 404, "NOT_FOUND")
            ELSE [req[r] EXCEPT !.pc = "write", !.kind = "createExpense", !.body = b]]
    /\ UNCHANGED <<client, now, store, budget>>

\* POST /api/finance/expenses: prisma.expense.create
CreateExpenseWrite(r) ==
    /\ req[r].pc = "write"
    /\ req[r].kind = "createExpense"
    /\ nextExp <= MaxExp
    /\ LET b == req[r].body
           row == [shipmentId |-> b.shipmentId, type |-> b.type, amount |-> b.amount,
                   paid |-> FALSE, paidAt |-> NoDate]
       IN  /\ expenses' = [i \in DOMAIN expenses \cup {nextExp} |->
                              IF i = nextExp THEN row ELSE expenses[i]]
           /\ nextExp' = nextExp + 1
           /\ req' = [req EXCEPT ![r] =
                [Done("createExpense", 201, "OK") EXCEPT !.id = nextExp]]
    /\ UNCHANGED <<client, now, authStore, shipStore, budget>>

\* PATCH /api/finance/expenses/:id: the expense lookup
UpdateExpenseRead(r, id, b) ==
    /\ Admitted(r, "updateExpense")
    /\ req' = [req EXCEPT ![r] =
            IF ~FindExpense(shipments, expenses, id, req[r].user.companyId)
            THEN [Done("updateExpense", 404, "NOT_FOUND") EXCEPT !.id = id]
            ELSE [req[r] EXCEPT !.pc = "write", !.kind = "updateExpense", !.id = id,
                                !.body = b, !.snap = expenses[id]]]
    /\ UNCHANGED <<client, now, store, budget>>

\* PATCH /api/finance/expenses/:id: updateData, then prisma.expense.update, which
\* throws when the row is gone or the named shipment does not exist
UpdateExpenseWrite(r) ==
    /\ req[r].pc = "write"
    /\ req[r].kind = "updateExpense"
    /\ LET id == req[r].id
           updateData == UpdateData(req[r].body, req[r].snap, now)
           fails == \/ id \notin DOMAIN expenses
                    \/ /\ "shipmentId" \in updateData.has
                       /\ updateData.shipmentId \notin DOMAIN shipments
       IN  IF fails
           THEN /\ req' = [req EXCEPT ![r] =
                        [Done("updateExpense", 500, "SERVER_ERROR") EXCEPT !.id = id]]
                /\ UNCHANGED expenses
           ELSE /\ expenses' = [expenses EXCEPT ![id] = ApplyPatch(@, updateData)]
                /\ req' = [req EXCEPT ![r] =
                        [Done("updateExpense", 200, "OK") EXCEPT !.id = id]]
    /\ UNCHANGED <<client, now, authStore, shipStore, nextExp, budget>>

\* variant of InsufficientBalance: the amount must be strictly below the balance
InsufficientBalanceStrict(es, id) ==
    /\ es[id].type = "DISBURSEMENT"
    /\ PayBalance(es, es[id].shipmentId) <= es[id].amount

\* variant of InsufficientBalance: the check is made for every type of expense
InsufficientBalanceAnyType(es, id) ==
    PayBalance(es, es[id].shipmentId) < es[id].amount

\* the balance check of POST /expenses/:id/pay on the rows it read
InsufficientBalance(es, id) ==
    /\ es[id].type = "DISBURSEMENT"
    /\ PayBalance(es, es[id].shipmentId) < es[id].amount

\* variant of PayRejectsPaid: the test is dropped
PayRejectsNothing(expense) == FALSE

\* if (expense.paid) of POST /expenses/:id/pay
PayRejectsPaid(expense) == expense.paid

\* variant of DeleteRejectsPaid: the test is dropped
DeleteRejectsNothing(expense) == FALSE

\* if (expense.paid) of DELETE /expenses/:id
DeleteRejectsPaid(expense) == expense.paid

\* POST /api/finance/expenses/:id/pay: the lookup (with the shipment's expenses),
\* the already-paid test and the balance check
PayExpenseRead(r, id) ==
    /\ Admitted(r, "payExpense")
    /\ req' = [req EXCEPT ![r] =
            IF ~FindExpense(shipments, expenses, id, req[r].user.companyId)
            THEN [Done("payExpense", 404, "NOT_FOUND") EXCEPT !.id = id]
            ELSE IF PayRejectsPaid(expenses[id])
            THEN [Done("payExpense", 400, "ALREADY_PAID") EXCEPT !.id = id]
            ELSE IF InsufficientBalance(expenses, id)
            THEN [Done("payExpense", 400, "INSUFFICIENT_BALANCE") EXCEPT
                    !.id = id,
                    !.bal = PayBalance(expenses, expenses[id].shipmentId)]
            ELSE [req[r] EXCEPT
                    !.pc = "write", !.kind = "payExpense", !.id = id,
                    !.snap = expenses[id],
                    !.bal = PayBalance(expenses, expenses[id].shipmentId),
                    !.overlap = {q \in Reqs \ {r} :
                                   req[q].pc = "write" /\ req[q].kind = "payExpense"}]]
    /\ UNCHANGED <<client, now, store, budget>>

\* POST /api/finance/expenses/:id/pay: prisma.expense.update, which throws when
\* the row is gone
PayExpenseWrite(r) ==
    /\ req[r].pc = "write"
    /\ req[r].kind = "payExpense"
    /\ LET id == req[r].id
       IN  IF id \notin DOMAIN expenses
           THEN /\ req' = [req EXCEPT ![r] =
                        [Done("payExpense", 500, "SERVER_ERROR") EXCEPT !.id = id]]
                /\ UNCHANGED expenses
           ELSE /\ expenses' = [expenses EXCEPT ![id].paid = TRUE, ![id].paidAt = now]
                /\ req' = [req EXCEPT ![r] =
                        [Done("payExpense", 200, "OK") EXCEPT !.id = id, !.snap = req[r].snap,
                            !.bal = req[r].bal, !.overlap = req[r].overlap]]
    /\ UNCHANGED <<client, now, authStore, shipStore, nextExp, budget>>

\* DELETE /api/finance/expenses/:id: the lookup and the paid test
DeleteExpenseRead(r, id) ==
    /\ Admitted(r, "deleteExpense")
    /\ req' = [req EXCEPT ![r] =
            IF ~FindExpense(shipments, expenses, id, req[r].user.companyId)
            THEN [Done("deleteExpense", 404, "NOT_FOUND") EXCEPT !.id = id]
            ELSE IF DeleteRejectsPaid(expenses[id])
            THEN [Done("deleteExpense", 400, "CANNOT_DELETE_PAID") EXCEPT !.id = id]
            ELSE [req[r] EXCEPT !.pc = "write", !.kind = "deleteExpense", !.id = id,
                                !.snap = expenses[id]]]
    /\ UNCHANGED <<client, now, store, budget>>

\* DELETE /api/finance/expenses/:id: prisma.expense.delete, which throws when the
\* row is gone
DeleteExpenseWrite(r) ==
    /\ req[r].pc = "write"
    /\ req[r].kind = "deleteExpense"
    /\ LET id == req[r].id
       IN  IF id \notin DOMAIN expenses
           THEN /\ req' = [req EXCEPT ![r] =
                        [Done("deleteExpense", 500, "SERVER_ERROR") EXCEPT !.id = id]]
                /\ UNCHANGED expenses
           ELSE /\ expenses' = [i \in DOMAIN expenses \ {id} |-> expenses[i]]
                /\ req' = [req EXCEPT ![r] =
                        [Done("deleteExpense", 200, "OK") EXCEPT !.id = id]]
    /\ UNCHANGED <<client, now, authStore, shipStore, nextExp, budget>>

\* GET /api/shipments/:id
GetShipment(r, sid) ==
    /\ Admitted(r, "getShipment")
    /\ req' = [req EXCEPT ![r] =
            IF ~FindShipment(shipments, sid, req[r].user.companyId)
            THEN [Done("getShipment", 404, "NOT_FOUND") EXCEPT
                    !.user = req[r].user, !.id = sid]
            ELSE [Done("getShipment", 200, "OK") EXCEPT
                    !.user = req[r].user, !.id = sid, !.was = shipments[sid].status,
                    !.ids = SortDesc(OfShipment(expenses, sid))]]
    /\ UNCHANGED <<client, now, store, budget>>

\* POST /api/shipments: parse, then prisma.shipment.create with its first
\* timeline event nested in it
CreateShipment(r, valid, st, rnd) ==
    /\ Admitted(r, "createShipment")
    /\ IF ~valid
       THEN /\ req' = [req EXCEPT ![r] = Done("createShipment", 400, "VALIDATION")]
            /\ UNCHANGED <<shipments, nextShip, timeline>>
       ELSE /\ nextShip <= MaxShip
            /\ shipments' = [i \in DOMAIN shipments \cup {nextShip} |->
                    IF i = nextShip
                    THEN [companyId |-> req[r].user.companyId, status |-> st,
                          trackingNumber |-> generateTrackingNumber(now, rnd)]
                    ELSE shipments[i]]
            /\ nextShip' = nextShip + 1
            /\ timeline' = Append(timeline,
                    [shipmentId |-> nextShip, action |-> "Dossier cree",
                     userId |-> req[r].user.id])
            /\ req' = [req EXCEPT ![r] =
                    [Done("createShipment", 201, "OK") EXCEPT !.id = nextShip]]
    /\ UNCHANGED <<client, now, authStore, documents, nextDoc, ledgerStore, budget>>

\* PATCH /api/shipments/:id: the shipment lookup
UpdateShipmentRead(r, sid, b) ==
    /\ Admitted(r, "updateShipment")
    /\ req' = [req EXCEPT ![r] =
            IF ~FindShipment(shipments, sid, req[r].user.companyId)
            THEN [Done("updateShipment", 404, "NOT_FOUND") EXCEPT !.id = sid]
            ELSE [req[r] EXCEPT !.pc = "write", !.kind = "updateShipment", !.id = sid,
                                !.patch = b, !.was = shipments[sid].status]]
    /\ UNCHANGED <<client, now, store, budget>>

\* PATCH /api/shipments/:id: prisma.shipment.update, then the status test
UpdateShipmentWrite(r) ==
    /\ req[r].pc = "write"
    /\ req[r].kind = "updateShipment"
    /\ LET sid == req[r].id
       IN  /\ shipments' = [shipments EXCEPT ![sid] = ApplyShipPatch(@, req[r].patch)]
           /\ req' = [req EXCEPT ![r] =
                IF StatusChanged(req[r].patch, req[r].was)
                THEN [req[r] EXCEPT !.pc = "event"]
                ELSE [Done("updateShipment", 200, "OK") EXCEPT !.id = sid]]
    /\ UNCHANGED <<client, now, authStore, nextShip, documents, nextDoc, timeline, ledgerStore, budget>>

\* PATCH /api/shipments/:id: prisma.timelineEvent.create, which may fail
UpdateShipmentEvent(r, created) ==
    /\ req[r].pc = "event"
    /\ req[r].kind = "updateShipment"
    /\ timeline' = IF created
                   THEN Append(timeline,
                            [shipmentId |-> req[r].id, action |-> req[r].patch.status,
                             userId |-> req[r].user.id])
                   ELSE timeline
    /\ req' = [req EXCEPT ![r] =
            IF created THEN [Done("updateShipment", 200, "OK") EXCEPT !.id = req[r].id]
            ELSE [Done("updateShipment", 500, "SERVER_ERROR") EXCEPT !.id = req[r].id]]
    /\ UNCHANGED <<client, now, authStore, shipments, nextShip, documents, nextDoc, ledgerStore, budget>>

\* DELETE /api/shipments/:id: the shipment lookup
ArchiveShipmentRead(r, sid) ==
    /\ Admitted(r, "archiveShipment")
    /\ req' = [req EXCEPT ![r] =
            IF ~FindShipment(shipments, sid, req[r].user.companyId)
            THEN [Done("archiveShipment", 404, "NOT_FOUND") EXCEPT !.id = sid]
            ELSE [req[r] EXCEPT !.pc = "write", !.kind = "archiveShipment", !.id = sid,
                                !.was = shipments[sid].status]]
    /\ UNCHANGED <<client, now, store, budget>>

\* variant of ArchiveRow: the row is removed
DeleteRow(ss, sid) == [i \in DOMAIN ss \ {sid} |-> ss[i]]

\* data: { status: 'ARCHIVED' }
ArchiveRow(ss, sid) == [ss EXCEPT ![sid].status = "ARCHIVED"]

\* DELETE /api/shipments/:id: prisma.shipment.update({ data: { status: 'ARCHIVED' } })
ArchiveShipmentWrite(r) ==
    /\ req[r].pc = "write"
    /\ req[r].kind = "archiveShipment"
    /\ shipments' = ArchiveRow(shipments, req[r].id)
    /\ req' = [req EXCEPT ![r] = [Done("archiveShipment", 200, "OK") EXCEPT !.id = req[r].id]]
    /\ UNCHANGED <<client, now, authStore, nextShip, documents, nextDoc, timeline, ledgerStore, budget>>

\* POST /api/shipments/:id/documents: the required keys, then the shipment lookup
AddDocumentRead(r, sid, valid) ==
    /\ Admitted(r, "addDocument")
    /\ req' = [req EXCEPT ![r] =
            IF ~valid THEN [Done("addDocument", 400, "VALIDATION") EXCEPT !.id = sid]
            ELSE IF ~FindShipment(shipments, sid, req[r].user.companyId)
            THEN [Done("addDocument", 404, "NOT_FOUND") EXCEPT !.id = sid]
            ELSE [req[r] EXCEPT !.pc = "write", !.kind = "addDocument", !.id = sid]]
    /\ UNCHANGED <<client, now, store, budget>>

\* POST /api/shipments/:id/documents: prisma.document.create
AddDocumentWrite(r) ==
    /\ req[r].pc = "write"
    /\ req[r].kind = "addDocument"
    /\ nextDoc <= MaxDoc
    /\ documents' = [i \in DOMAIN documents \cup {nextDoc} |->
            IF i = nextDoc THEN [shipmentId |-> req[r].id] ELSE documents[i]]
    /\ nextDoc' = nextDoc + 1
    /\ req' = [req EXCEPT ![r] =
            [Done("addDocument", 201, "OK") EXCEPT !.id = req[r].id, !.doc = nextDoc]]
    /\ UNCHANGED <<client, now, authStore, shipments, nextShip, timeline, ledgerStore, budget>>

\* prisma.document.findFirst({ where: { id, shipment: { id, companyId } } })
FindDocument(ss, ds, doc, sid, cid) ==
    /\ doc \in DOMAIN ds
    /\ ds[doc].shipmentId = sid
    /\ sid \in DOMAIN ss
    /\ ss[sid].companyId = cid

\* DELETE /api/shipments/:id/documents/:docId: the document lookup
RemoveDocumentRead(r, sid, doc) ==
    /\ Admitted(r, "removeDocument")
    /\ req' = [req EXCEPT ![r] =
            IF ~FindDocument(shipments, documents, doc, sid, req[r].user.companyId)
            THEN [Done("removeDocument", 404, "NOT_FOUND") EXCEPT !.id = sid, !.doc = doc]
            ELSE [req[r] EXCEPT !.pc = "write", !.kind = "removeDocument", !.id = sid,
                                !.doc = doc]]
    /\ UNCHANGED <<client, now, store, budget>>

\* DELETE /api/shipments/:id/documents/:docId: prisma.document.delete, which
\* throws when the row is gone
RemoveDocumentWrite(r) ==
    /\ req[r].pc = "write"
    /\ req[r].kind = "removeDocument"
    /\ LET doc == req[r].doc
       IN  IF doc \notin DOMAIN documents
           THEN /\ req' = [req EXCEPT ![r] =
                        [Done("removeDocument", 500, "SERVER_ERROR") EXCEPT !.doc = doc]]
                /\ UNCHANGED documents
           ELSE /\ documents' = [i \in DOMAIN documents \ {doc} |-> documents[i]]
                /\ req' = [req EXCEPT ![r] =
                        [Done("removeDocument", 200, "OK") EXCEPT !.doc = doc]]
    /\ UNCHANGED <<client, now, authStore, shipments, nextShip, nextDoc, timeline, ledgerStore, budget>>

\* -------------------------------------------------------- session manager
AuthTick ==
    /\ now < MaxClock
    /\ now' = now + 1
    /\ UNCHANGED <<client, store, req, budget>>

\* the slot a new request takes
Accept(r) ==
    /\ req[r].pc \in {"idle", "done"}
    /\ \A q \in Reqs : q < r => req[q].pc \notin {"idle", "done"}
    /\ budget > 0
    /\ budget' = budget - 1

\* POST /api/auth/login: parse, then the user lookup
LoginRead(r, email, ok) ==
    /\ Accept(r)
    /\ req' = [req EXCEPT ![r] =
            IF email = BadEmail THEN Done("login", 400, "VALIDATION")
            ELSE [Idle EXCEPT !.pc = "login", !.kind = "login", !.email = email,
                              !.ok = ok, !.account = FindUserByEmail(users, toLowerCase(email))]]
    /\ UNCHANGED <<client, now, store>>

\* variant of LoginTransaction: two writes, the first of which lasts when the
\* second fails
LoginTwoWrites(ss, us, id, token, t, commit) ==
    [sessions |-> Append(ss, RefreshRow(token, id, t)),
     users |-> IF commit
               THEN [us EXCEPT ![id].failedAttempts = 0, ![id].lockedUntil = NoDate,
                               ![id].lastLogin = t]
               ELSE us]

\* prisma.$transaction([refreshToken.create, user.update]): both writes, or,
\* when it fails, none
LoginTransaction(ss, us, id, token, t, commit) ==
    IF commit
    THEN [sessions |-> Append(ss, RefreshRow(token, id, t)),
          users |-> [us EXCEPT ![id].failedAttempts = 0, ![id].lockedUntil = NoDate,
                               ![id].lastLogin = t]]
    ELSE [sessions |-> ss, users |-> us]

\* variant of Locked: an account is locked once its counter is at MaxFailed
LockedByCounter(user, t) == user.failedAttempts >= MaxFailed

\* variant of Locked: the lock is over one tick before lockedUntil
LockedButLastTick(user, t) == user.lockedUntil # NoDate /\ user.lockedUntil > t + 1

\* user.lockedUntil && user.lockedUntil > new Date()
Locked(user, t) == user.lockedUntil # NoDate /\ user.lockedUntil > t

\* POST /api/auth/login after the lookup: the tests on the user read, then the
\* write each outcome makes and the answer
LoginWrite(r, code, commit) ==
    /\ req[r].pc = "login"
    /\ LET user == req[r].account
           tokens == generateTokens(user.id, user.role, user.companyId, now)
           newFailedAttempts == user.failedAttempts + 1
           shouldLock == newFailedAttempts >= MaxFailed
           tx == LoginTransaction(sessions, users, user.id, tokens.refreshToken, now, commit)
       IN  IF ~user.found
           THEN /\ req' = [req EXCEPT ![r] = Done("login", 401, "INVALID_CREDENTIALS")]
                /\ UNCHANGED <<users, sessions>>
           ELSE IF Locked(user, now)
           THEN /\ req' = [req EXCEPT ![r] =
                        [Done("login", 423, "LOCKED") EXCEPT
                            !.email = user.id, !.mins = user.lockedUntil - now]]
                /\ UNCHANGED <<users, sessions>>
           ELSE IF ~user.emailVerified
           THEN /\ users' = [users EXCEPT ![user.id].verificationCode = code,
                                          ![user.id].codeExpiresAt = now + CodeLife]
                /\ req' = [req EXCEPT ![r] =
                        [Done("login", 403, "EMAIL_NOT_VERIFIED") EXCEPT !.email = user.id]]
                /\ UNCHANGED sessions
           ELSE IF ~user.isActive
           THEN /\ req' = [req EXCEPT ![r] =
                        [Done("login", 401, "ACCOUNT_DISABLED") EXCEPT !.email = user.id]]
                /\ UNCHANGED <<users, sessions>>
           ELSE IF ~req[r].ok
           THEN /\ users' = [users EXCEPT
                        ![user.id].failedAttempts = newFailedAttempts,
                        ![user.id].lockedUntil =
                            IF shouldLock THEN now + LockTime ELSE NoDate]
                /\ req' = [req EXCEPT ![r] =
                        [Done("login", 401,
                              IF shouldLock THEN "TOO_MANY_ATTEMPTS"
                              ELSE "INVALID_CREDENTIALS")
                         EXCEPT !.email = user.id, !.account = user]]
                /\ UNCHANGED sessions
           ELSE /\ Len(sessions) < MaxSess
                /\ sessions' = tx.sessions
                /\ users' = tx.users
                /\ req' = [req EXCEPT ![r] =
                        IF commit
                        THEN [Done("login", 200, "OK") EXCEPT
                                !.email = user.id, !.account = user,
                                !.access = tokens.accessToken,
                                !.refresh = tokens.refreshToken]
                        ELSE [Done("login", 500, "SERVER_ERROR") EXCEPT
                                !.email = user.id, !.account = user]]
    /\ UNCHANGED <<client, now, companies, shipStore, ledgerStore, budget>>

\* POST /api/auth/verify-email: parse, then the user lookup
VerifyEmailRead(r, email, vcode) ==
    /\ Accept(r)
    /\ req' = [req EXCEPT ![r] =
            IF email = BadEmail \/ vcode = NoCode
            THEN Done("verifyEmail", 400, "VALIDATION")
            ELSE [Idle EXCEPT !.pc = "verify", !.kind = "verifyEmail", !.email = email,
                              !.vcode = vcode,
                              !.account = FindUserByEmail(users, toLowerCase(email))]]
    /\ UNCHANGED <<client, now, store>>

\* variant of CodeExpired: the code is over as soon as its window closes
CodeExpiredAtWindowEnd(user, t) ==
    user.codeExpiresAt # NoDate /\ user.codeExpiresAt <= t

\* user.codeExpiresAt && user.codeExpiresAt < new Date()
CodeExpired(user, t) == user.codeExpiresAt # NoDate /\ user.codeExpiresAt < t

\* POST /api/auth/verify-email after the lookup: the tests on the user read, then
\* prisma.user.update
VerifyEmailWrite(r) ==
    /\ req[r].pc = "verify"
    /\ LET user == req[r].account
           refuse == IF ~user.found THEN "INVALID_CODE"
                     ELSE IF user.emailVerified THEN "ALREADY_VERIFIED"
                     ELSE IF user.verificationCode # req[r].vcode THEN "INCORRECT_CODE"
                     ELSE IF CodeExpired(user, now) THEN "EXPIRED"
                     ELSE "ok"
       IN  IF refuse # "ok"
           THEN /\ req' = [req EXCEPT ![r] =
                        [Done("verifyEmail", 400, refuse) EXCEPT !.email = req[r].email]]
                /\ UNCHANGED users
           ELSE /\ users' = [users EXCEPT ![user.id].emailVerified = TRUE,
                                          ![user.id].isActive = TRUE,
                                          ![user.id].verificationCode = NoCode,
                                          ![user.id].codeExpiresAt = NoDate]
                /\ req' = [req EXCEPT ![r].pc = "issue"]
    /\ UNCHANGED <<client, now, sessions, companies, shipStore, ledgerStore, budget>>

\* POST /api/auth/verify-email: generateTokens, prisma.refreshToken.create, which
\* may fail, and the answer
VerifyEmailIssue(r, stored) ==
    /\ req[r].pc = "issue"
    /\ LET user == req[r].account
           tokens == generateTokens(user.id, user.role, user.companyId, now)
       IN  IF stored
           THEN /\ Len(sessions) < MaxSess
                /\ sessions' = Append(sessions, RefreshRow(tokens.refreshToken, user.id, now))
                /\ req' = [req EXCEPT ![r] =
                        [Done("verifyEmail", 200, "OK") EXCEPT
                            !.email = user.id, !.access = tokens.accessToken,
                            !.refresh = tokens.refreshToken]]
           ELSE /\ req' = [req EXCEPT ![r] =
                        [Done("verifyEmail", 500, "SERVER_ERROR") EXCEPT !.email = user.id]]
                /\ UNCHANGED sessions
    /\ UNCHANGED <<client, now, users, companies, shipStore, ledgerStore, budget>>

\* POST /api/auth/resend-code: parse, then the user lookup; a malformed email
\* ends in the catch, which gives the answer of every other case
ResendCodeRead(r, email) ==
    /\ Accept(r)
    /\ req' = [req EXCEPT ![r] =
            IF email = BadEmail
            THEN [Done("resendCode", 200, "CODE_SENT_IF_EXISTS") EXCEPT !.email = email]
            ELSE [Idle EXCEPT !.pc = "resend", !.kind = "resendCode", !.email = email,
                              !.account = FindUserByEmail(users, toLowerCase(email))]]
    /\ UNCHANGED <<client, now, store>>

\* variant of ResendApplies: a code is sent to every existing account
ResendToEveryAccount(user) == user.found

\* if (user && !user.emailVerified)
ResendApplies(user) == user.found /\ ~user.emailVerified

\* POST /api/auth/resend-code after the lookup
ResendCodeWrite(r, code) ==
    /\ req[r].pc = "resend"
    /\ LET user == req[r].account
       IN  /\ users' = IF ResendApplies(user)
                       THEN [users EXCEPT ![user.id].verificationCode = code,
                                          ![user.id].codeExpiresAt = now + CodeLife]
                       ELSE users
           /\ req' = [req EXCEPT ![r] =
                    [Done("resendCode", 200, "CODE_SENT_IF_EXISTS") EXCEPT
                        !.email = req[r].email, !.account = user]]
    /\ UNCHANGED <<client, now, sessions, companies, shipStore, ledgerStore, budget>>

\* POST /api/auth/register: parse, then the user lookup
RegisterRead(r, email) ==
    /\ Accept(r)
    /\ req' = [req EXCEPT ![r] =
            IF email = BadEmail THEN Done("register", 400, "VALIDATION")
            ELSE [Idle EXCEPT !.pc = "register", !.kind = "register", !.email = toLowerCase(email),
                              !.account = FindUserByEmail(users, toLowerCase(email))]]
    /\ UNCHANGED <<client, now, store>>

\* the column default of User.isActive
DefaultActive == {TRUE, FALSE}

\* variant of CreateCompany: the company first, its user in a second write that
\* may fail
CreateCompanyThenUser(cs, us, id, email, row, created) ==
    [companies |-> cs \cup {id},
     users |-> IF created
               THEN [u \in DOMAIN us \cup {email} |-> IF u = email THEN row ELSE us[u]]
               ELSE us]

\* prisma.company.create({ data: { ..., users: { create: {...} } } }): the
\* company and its first user in one write, or, when it fails, neither
CreateCompany(cs, us, id, email, row, created) ==
    IF created
    THEN [companies |-> cs \cup {id},
          users |-> [u \in DOMAIN us \cup {email} |-> IF u = email THEN row ELSE us[u]]]
    ELSE [companies |-> cs, users |-> us]

\* the id of the company a registration creates
NewCompany(cs) == CHOOSE c \in {"C", "D", "E"} : c \notin cs

\* POST /api/auth/register after the lookup: a new code for an unverified
\* account, a refusal for a verified one, prisma.company.create with its first
\* user otherwise; the create fails when the email is stored by now (the email
\* is unique), and may fail in storage
RegisterWrite(r, code, active, created) ==
    /\ req[r].pc = "register"
    /\ LET existingUser == req[r].account
           email == req[r].email
           row == [role |-> "DIRECTOR", companyId |-> NewCompany(companies),
                   isActive |-> active, emailVerified |-> FALSE,
                   failedAttempts |-> 0, lockedUntil |-> NoDate,
                   lastLogin |-> NoDate, verificationCode |-> code,
                   codeExpiresAt |-> now + CodeLife]
           made == CreateCompany(companies, users, NewCompany(companies), email, row,
                                 created /\ email \notin DOMAIN users)
       IN  IF existingUser.found /\ ~existingUser.emailVerified
           THEN /\ users' = [users EXCEPT ![existingUser.id].verificationCode = code,
                                          ![existingUser.id].codeExpiresAt = now + CodeLife]
                /\ req' = [req EXCEPT ![r] =
                        [Done("register", 200, "CODE_RESENT") EXCEPT !.email = email]]
                /\ UNCHANGED companies
           ELSE IF existingUser.found
           THEN /\ req' = [req EXCEPT ![r] =
                        [Done("register", 400, "EMAIL_IN_USE") EXCEPT !.email = email]]
                /\ UNCHANGED <<users, companies>>
           ELSE /\ users' = made.users
                /\ companies' = made.companies
                /\ req' = [req EXCEPT ![r] =
                        IF created /\ email \notin DOMAIN users
                        THEN [Done("register", 201, "CREATED") EXCEPT !.email = email]
                        ELSE [Done("register", 500, "SERVER_ERROR") EXCEPT !.email = email]]
    /\ UNCHANGED <<client, now, sessions, shipStore, ledgerStore, budget>>

\* variant of StoredTokens: revocation and expiry are not looked at
StoredTokensAnyState(ss, token, t) ==
    {i \in DOMAIN ss : ss[i].token = token /\ ss[i].userId = token.userId}

\* prisma.refreshToken.findFirst({ where: { token, userId, revokedAt: null,
\* expiresAt: { gt: new Date() } } }): the rows it may return
StoredTokens(ss, token, t) ==
    {i \in DOMAIN ss : /\ ss[i].token = token
                       /\ ss[i].userId = token.userId
                       /\ ss[i].revokedAt = NoDate
                       /\ ss[i].expiresAt > t}

\* variant of Refresh: the refresh token is rotated, the stored rows of the
\* presented one are revoked and the answer carries its successor
RefreshRotates(r, token) ==
    /\ Accept(r)
    /\ LET ok == /\ token.present
                 /\ VerifyJwt(token, "REFRESH", now) = "ok"
                 /\ StoredTokens(sessions, token, now) # {}
           user == FindUser(users, token.userId)
           tokens == generateTokens(user.id, user.role, user.companyId, now)
       IN  /\ req' = [req EXCEPT ![r] =
                    IF ~ok THEN [Done("refresh", 401, "INVALID_TOKEN") EXCEPT !.refresh = token]
                    ELSE [Done("refresh", 200, "OK") EXCEPT
                            !.refresh = tokens.refreshToken, !.access = tokens.accessToken]]
           /\ sessions' = IF ~ok THEN sessions
                          ELSE [i \in DOMAIN sessions |->
                                    IF i \in StoredTokens(sessions, token, now)
                                    THEN [sessions[i] EXCEPT !.revokedAt = now]
                                    ELSE sessions[i]]
    /\ UNCHANGED <<client, now, users, companies, shipStore, ledgerStore>>

\* POST /api/auth/refresh: the cookie, jwt.verify with the refresh secret, the
\* lookup of the stored token, the new access token
Refresh(r, token) ==
    /\ Accept(r)
    /\ LET v == IF ~token.present THEN "NO_REFRESH_TOKEN"
                ELSE IF VerifyJwt(token, "REFRESH", now) # "ok" THEN "INVALID_TOKEN"
                ELSE IF StoredTokens(sessions, token, now) = {} THEN "INVALID_OR_EXPIRED"
                ELSE "ok"
       IN  req' = [req EXCEPT ![r] =
                IF v # "ok" THEN [Done("refresh", 401, v) EXCEPT !.refresh = token]
                ELSE [Done("refresh", 200, "OK") EXCEPT
                        !.refresh = token,
                        !.access =
                            LET user == FindUser(users, token.userId)
                            IN  generateTokens(user.id, user.role, user.companyId,
                                               now).accessToken]]
    /\ UNCHANGED <<client, now, store>>

\* GET /api/auth/me
Me(r) ==
    /\ Admitted(r, "me")
    /\ LET user == FindUser(users, req[r].user.id)
       IN  req' = [req EXCEPT ![r] =
                IF ~user.found THEN Done("me", 404, "NOT_FOUND")
                ELSE [Done("me", 200, "OK") EXCEPT !.user = user]]
    /\ UNCHANGED <<client, now, store, budget>>

\* variant of RevokeAll: the unrevoked rows of every user get the date
RevokeEveryUser(ss, userId, t) ==
    [i \in DOMAIN ss |->
        IF ss[i].revokedAt = NoDate THEN [ss[i] EXCEPT !.revokedAt = t] ELSE ss[i]]

\* variant of RevokeAll: every row of the user gets the new date
RevokeAllAgain(ss, userId, t) ==
    [i \in DOMAIN ss |->
        IF ss[i].userId = userId THEN [ss[i] EXCEPT !.revokedAt = t] ELSE ss[i]]

\* prisma.refreshToken.updateMany({ where: { userId, revokedAt: null },
\* data: { revokedAt: new Date() } })
RevokeAll(ss, userId, t) ==
    [i \in DOMAIN ss |->
        IF ss[i].userId = userId /\ ss[i].revokedAt = NoDate
        THEN [ss[i] EXCEPT !.revokedAt = t]
        ELSE ss[i]]

\* POST /api/auth/logout
Logout(r) ==
    /\ Admitted(r, "logout")
    /\ sessions' = RevokeAll(sessions, req[r].user.id, now)
    /\ req' = [req EXCEPT ![r] = [Done("logout", 200, "OK") EXCEPT !.user = req[r].user]]
    /\ UNCHANGED <<client, now, users, companies, shipStore, ledgerStore, budget>>

\* A user is soft-deactivated, never deleted: isActive goes to false.
Deactivate(u) ==
    /\ u \in DOMAIN users
    /\ users[u].isActive
    /\ users' = [users EXCEPT ![u].isActive = FALSE]
    /\ UNCHANGED <<client, now, sessions, companies, shipStore, ledgerStore, req, budget>>

\* A user is given another role or moved to another company.
Reassign(u, role, companyId) ==
    /\ u \in DOMAIN users
    /\ users[u].role # role \/ users[u].companyId # companyId
    /\ users' = [users EXCEPT ![u].role = role, ![u].companyId = companyId]
    /\ UNCHANGED <<client, now, sessions, companies, shipStore, ledgerStore, req, budget>>

\* ------------------------------------------------------------- the API client

\* export const api = new ApiClient(): isRefreshing = false, refreshQueue = [],
\* and no call made yet. A call is at "none" (not made), "fetch" (its fetch is
\* in flight), "queued" (its promise waits in refreshQueue), "refresh" (its
\* POST /auth/refresh is in flight), "retry" (handleTokenRefresh awaits its
\* second fetch), "resolved" or "rejected" (its promise is settled).
NewClient ==
    [isRefreshing |-> FALSE, refreshQueue |-> <<>>, location |-> "app",
     call |-> [c \in 1..NumCalls |->
                [pc |-> "none", isRetry |-> FALSE, sent |-> 0, status |-> 0, code |-> ""]]]

\* what a fetch brings back: a 2xx, the guard's two 401s, another error, or no
\* answer at all (fetch throws; request turns it into ApiError with status 0)
Responses ==
    {[ok |-> TRUE, status |-> 200, code |-> ""],
     [ok |-> FALSE, status |-> 401, code |-> "TOKEN_EXPIRED"],
     [ok |-> FALSE, status |-> 401, code |-> "INVALID_TOKEN"],
     [ok |-> FALSE, status |-> 500, code |-> "SERVER_ERROR"],
     [ok |-> FALSE, status |-> 0, code |-> ""]}

\* request(method, endpoint, data, isRetry) up to its await fetch(url, options)
request(cl, c, isRetry) ==
    [cl EXCEPT !.call[c].pc = "fetch", !.call[c].isRetry = isRetry, !.call[c].sent = @ + 1]

\* variant of TokenExpired: every TOKEN_EXPIRED answer starts a refresh
TokenExpiredAnyTry(resp, isRetry) == resp.status = 401 /\ resp.code = "TOKEN_EXPIRED"

\* response.status === 401 && json.code === 'TOKEN_EXPIRED' && !isRetry
TokenExpired(resp, isRetry) ==
    resp.status = 401 /\ resp.code = "TOKEN_EXPIRED" /\ ~isRetry

\* variant of handleTokenRefresh: every expired call starts its own refresh
handleTokenRefreshEach(cl, c) ==
    [cl EXCEPT !.isRefreshing = TRUE, !.call[c].pc = "refresh"]

\* handleTokenRefresh up to its first await: the call joins refreshQueue while
\* a refresh is under way, and otherwise raises isRefreshing and posts the refresh
handleTokenRefresh(cl, c) ==
    IF cl.isRefreshing
    THEN [cl EXCEPT !.refreshQueue = Append(@, c), !.call[c].pc = "queued"]
    ELSE [cl EXCEPT !.isRefreshing = TRUE, !.call[c].pc = "refresh"]

\* api.get / post / put / patch / delete: the page makes its next call
Call(c) ==
    /\ client.call[c].pc = "none"
    /\ \A d \in 1..NumCalls : d < c => client.call[d].pc # "none"
    /\ client' = request(client, c, FALSE)
    /\ UNCHANGED <<now, store, req, budget>>

\* the fetch of request settles and request runs to its end; when the request
\* is the one handleTokenRefresh awaits, the rest of handleTokenRefresh follows:
\* on a result the queue is flushed (each queued call is sent again as a retry)
\* and emptied, on a throw it is left alone, and finally isRefreshing = false
Respond(c, resp) ==
    /\ client.call[c].pc \in {"fetch", "retry"}
    /\ LET RECURSIVE Flush(_, _)
           Flush(cl, q) ==
               IF q = <<>> THEN cl ELSE Flush(request(cl, Head(q), TRUE), Tail(q))
           call == client.call[c]
           after ==
               IF resp.ok
               THEN [client EXCEPT !.call[c].pc = "resolved", !.call[c].status = 200]
               ELSE IF TokenExpired(resp, call.isRetry)
               THEN handleTokenRefresh(client, c)
               ELSE [client EXCEPT !.call[c].pc = "rejected",
                                   !.call[c].status = resp.status,
                                   !.call[c].code = resp.code]
       IN  client' =
               IF call.pc = "fetch" THEN after
               ELSE IF after.call[c].pc = "resolved"
               THEN [Flush(after, client.refreshQueue) EXCEPT
                        !.refreshQueue = <<>>, !.isRefreshing = FALSE]
               ELSE IF after.call[c].pc = "rejected"
               THEN [after EXCEPT !.isRefreshing = FALSE]
               ELSE after
    /\ UNCHANGED <<now, store, req, budget>>

\* the fetch of POST /auth/refresh settles: on a 2xx the call is sent again as a
\* retry; on another answer the page is sent to '/' and ApiError(401) is thrown;
\* when fetch itself throws, its error goes to the caller as it is (status 0);
\* finally isRefreshing = false on both throws
RefreshRespond(c, outcome) ==
    /\ client.call[c].pc = "refresh"
    /\ client' =
            IF outcome = "ok"
            THEN [request(client, c, TRUE) EXCEPT !.call[c].pc = "retry"]
            ELSE [client EXCEPT !.call[c].pc = "rejected",
                                !.call[c].status = IF outcome = "refused" THEN 401 ELSE 0,
                                !.location = IF outcome = "refused" THEN "/" ELSE @,
                                !.isRefreshing = FALSE]
    /\ UNCHANGED <<now, store, req, budget>>

\* ------------------------------------------------------------ initial state
InitUsers ==
    [u \in UserIds |->
        [role |-> SeedClaims(u).role, companyId |-> SeedClaims(u).companyId,
         isActive |-> u # "offA", emailVerified |-> u # "newB",
         failedAttempts |-> 0, lockedUntil |-> NoDate, lastLogin |-> NoDate,
         verificationCode |-> IF u = "newB" THEN "c1" ELSE NoCode,
         codeExpiresAt |-> IF u = "newB" THEN CodeLife ELSE NoDate]]

InitShipments ==
    [s \in ShipIds |->
        [companyId |-> IF s = 1 THEN "A" ELSE "B", status |-> "PENDING",
         trackingNumber |-> [ts |-> NoDate, rnd |-> IF s = 1 THEN "DEMO-001" ELSE "DEMO-002"]]]

\* The ledgers that creations and payments alone produce: rows as createExpense
\* writes them, paid ones stamped as payExpense stamps them, no balance negative.
\* Ids are handed out in creation order; one order of the rows stands for all.
Rank(e) ==
    (IF e.type = "PROVISION" THEN 0 ELSE 1) * 100 + e.shipmentId * 20
    + e.amount * 2 + (IF e.paid THEN 1 ELSE 0)

Ledgers(ships) ==
    UNION {
        {es \in [1..n -> [shipmentId : ships, type : ExpenseType,
                          amount : 1..MaxAmount, paid : BOOLEAN, paidAt : {NoDate, 0}]] :
            /\ \A i \in 1..n : es[i].paid <=> es[i].paidAt # NoDate
            /\ \A i \in 1..n : i < n => Rank(es[i]) <= Rank(es[i + 1])
            /\ \A sid \in ships : PayBalance(es, sid) >= 0}
        : n \in 0..MaxExp}

InitWith(t, ledgers, n) ==
    /\ now = t
    /\ users = InitUsers
    /\ sessions = <<>>
    /\ companies = Companies
    /\ shipments = InitShipments
    /\ nextShip = Cardinality(ShipIds) + 1
    /\ documents = <<>>
    /\ nextDoc = 1
    /\ timeline = [i \in 1..Cardinality(ShipIds) |->
                     [shipmentId |-> i, action |-> "Dossier cree", userId |-> "dirA"]]
    /\ expenses \in ledgers
    /\ nextExp = Cardinality(DOMAIN expenses) + 1
    /\ req = [r \in Reqs |-> Idle]
    /\ budget = n
    /\ client = NewClient

\* bodies of PATCH /expenses/:id that touch the payment columns
LedgerPatchBodies ==
    {b \in PatchBodies : b.has # {} /\ b.has \subseteq {"paid", "paidAt"}}

\* The books of company A kept by two requests at a time, the clock at MaxTime.
InitLedger == InitWith(MaxTime, Ledgers({1}), MaxReq)

LedgerNext ==
    \/ \E r \in Reqs, c \in LedgerCredentials : Arrive(r, c[1], c[2])
    \/ \E r \in Reqs, sid \in NamedShipIds : GetShipmentFinance(r, sid)
    \/ \E r \in Reqs, b \in CreateBodies : CreateExpenseRead(r, b)
    \/ \E r \in Reqs : CreateExpenseWrite(r)
    \/ \E r \in Reqs, id \in ExpIds, b \in LedgerPatchBodies : UpdateExpenseRead(r, id, b)
    \/ \E r \in Reqs : UpdateExpenseWrite(r)
    \/ \E r \in Reqs, id \in ExpIds : PayExpenseRead(r, id)
    \/ \E r \in Reqs : PayExpenseWrite(r)
    \/ \E r \in Reqs, id \in ExpIds : DeleteExpenseRead(r, id)
    \/ \E r \in Reqs : DeleteExpenseWrite(r)

SpecLedger == InitLedger /\ [][LedgerNext]_vars

\* The readers of both companies over books that hold expenses of both, every
\* amount 1.
InitRead ==
    InitWith(MaxTime,
             {es \in Ledgers(ShipIds) :
                /\ \A sid \in ShipIds : OfShipment(es, sid) # {}
                /\ \A i \in DOMAIN es : es[i].amount = 1},
             MaxReq)

ReadCredentials ==
    {<<c, NoToken>> : c \in SignedTokens({"JWT"}, {"agtA", "cliB"}, {MaxTime + 1})}

ReadNext ==
    \/ \E r \in Reqs, c \in ReadCredentials : Arrive(r, c[1], c[2])
    \/ \E r \in Reqs, hs \in BOOLEAN, sid \in NamedShipIds, hp \in BOOLEAN,
          p \in BOOLEAN, page \in 1..2, limit \in {1, 50} :
            ListExpenses(r, hs, sid, hp, p, page, limit)
    \/ \E r \in Reqs : GetSummary(r)
    \/ \E r \in Reqs, sid \in NamedShipIds : GetShipmentFinance(r, sid)
    \/ \E r \in Reqs, sid \in NamedShipIds : GetShipment(r, sid)

SpecRead == InitRead /\ [][ReadNext]_vars

\* A ledger in the manner of prisma/seed.ts, amounts scaled: one provision not
\* marked paid and one paid disbursement on the shipment of company A.
SeedLedger ==
    [i \in 1..2 |->
        IF i = 1
        THEN [shipmentId |-> 1, type |-> "PROVISION", amount |-> 2, paid |-> FALSE,
              paidAt |-> NoDate]
        ELSE [shipmentId |-> 1, type |-> "DISBURSEMENT", amount |-> 1, paid |-> TRUE,
              paidAt |-> 0]]

Init == InitWith(0, {SeedLedger}, MaxReq)

Next ==
    \/ Tick
    \/ \E r \in Reqs, c \in Credentials : Arrive(r, c[1], c[2])
    \/ \E r \in Reqs, k \in Kinds : Reject(r, k)
    \/ \E r \in Reqs, hs \in BOOLEAN, sid \in NamedShipIds, hp \in BOOLEAN,
          p \in BOOLEAN, page \in 1..2, limit \in {1, 50} :
            ListExpenses(r, hs, sid, hp, p, page, limit)
    \/ \E r \in Reqs : GetSummary(r)
    \/ \E r \in Reqs, sid \in NamedShipIds : GetShipmentFinance(r, sid)
    \/ \E r \in Reqs, b \in CreateBodies : CreateExpenseRead(r, b)
    \/ \E r \in Reqs : CreateExpenseWrite(r)
    \/ \E r \in Reqs, id \in ExpIds, b \in PatchBodies : UpdateExpenseRead(r, id, b)
    \/ \E r \in Reqs : UpdateExpenseWrite(r)
    \/ \E r \in Reqs, id \in ExpIds : PayExpenseRead(r, id)
    \/ \E r \in Reqs : PayExpenseWrite(r)
    \/ \E r \in Reqs, id \in ExpIds : DeleteExpenseRead(r, id)
    \/ \E r \in Reqs : DeleteExpenseWrite(r)
    \/ \E r \in Reqs, sid \in NamedShipIds : GetShipment(r, sid)
    \/ \E r \in Reqs, valid \in BOOLEAN, st \in DefaultStatus, rnd \in {"AAAA"} :
            CreateShipment(r, valid, st, rnd)
    \/ \E r \in Reqs, sid \in NamedShipIds, b \in ShipPatchBodies :
            UpdateShipmentRead(r, sid, b)
    \/ \E r \in Reqs : UpdateShipmentWrite(r)
    \/ \E r \in Reqs, created \in BOOLEAN : UpdateShipmentEvent(r, created)
    \/ \E r \in Reqs, sid \in NamedShipIds : ArchiveShipmentRead(r, sid)
    \/ \E r \in Reqs : ArchiveShipmentWrite(r)
    \/ \E r \in Reqs, sid \in NamedShipIds, valid \in BOOLEAN : AddDocumentRead(r, sid, valid)
    \/ \E r \in Reqs : AddDocumentWrite(r)
    \/ \E r \in Reqs, sid \in NamedShipIds, doc \in 1..MaxDoc : RemoveDocumentRead(r, sid, doc)
    \/ \E r \in Reqs : RemoveDocumentWrite(r)

Spec == Init /\ [][Next]_vars

\* ------------------------------------------------- the shipments on their own
\* Shipment 1 of company A open, closed or archived, with the seed's expenses
\* and one document; the agents of company A at work.
ShipCredentials ==
    {<<c, NoToken>> : c \in SignedTokens({"JWT"}, {"dirA", "agtA"}, {MaxTime + 1})}

InitShip ==
    /\ now = 0
    /\ users = InitUsers
    /\ sessions = <<>>
    /\ companies = Companies
    /\ \E st \in {"PENDING", "CLOSED", "ARCHIVED"} :
            shipments = [InitShipments EXCEPT ![1].status = st]
    /\ nextShip = Cardinality(ShipIds) + 1
    /\ documents = [i \in {1} |-> [shipmentId |-> 1]]
    /\ nextDoc = 2
    /\ timeline = [i \in 1..Cardinality(ShipIds) |->
                     [shipmentId |-> i, action |-> "Dossier cree", userId |-> "dirA"]]
    /\ expenses = SeedLedger
    /\ nextExp = Cardinality(DOMAIN expenses) + 1
    /\ req = [r \in Reqs |-> Idle]
    /\ budget = MaxShipReq
    /\ client = NewClient

ShipNext ==
    \/ \E r \in Reqs, c \in ShipCredentials : Arrive(r, c[1], c[2])
    \/ \E r \in Reqs :
        \/ \E sid \in {1} : GetShipment(r, sid)
        \/ \E valid \in BOOLEAN, st \in DefaultStatus, rnd \in {"AAAA"} :
            CreateShipment(r, valid, st, rnd)
        \/ \E sid \in ShipIds, b \in ShipPatchBodies : UpdateShipmentRead(r, sid, b)
        \/ UpdateShipmentWrite(r)
        \/ \E created \in BOOLEAN : UpdateShipmentEvent(r, created)
        \/ \E sid \in ShipIds : ArchiveShipmentRead(r, sid)
        \/ ArchiveShipmentWrite(r)
        \/ \E sid \in {1}, doc \in {1} : RemoveDocumentRead(r, sid, doc)
        \/ RemoveDocumentWrite(r)

SpecShip == InitShip /\ [][ShipNext]_vars

\* ------------------------------------------------------ the guard on its own
\* No token, a malformed one, access tokens of a director, of an agent, of a
\* user whose email is not verified and of a user no longer stored, and a
\* refresh token, each expiring at time 1 or later than every request; any of
\* them in the cookie and any in the header.
GuardCredentials ==
    LET tokens ==
            {NoToken, Malformed}
            \cup SignedTokens({"JWT"}, {"dirA", "agtA", "newB", Deleted}, {1, MaxTime + 1})
            \cup SignedTokens({"REFRESH"}, {"dirA"}, {1, MaxTime + 1})
    IN  tokens \X tokens

GuardNext ==
    \/ Tick
    \/ \E u \in {"dirA", "agtA"} : Deactivate(u)
    \/ \E u \in {"agtA"}, role \in {"CLIENT", "AGENT"}, c \in Companies : Reassign(u, role, c)
    \/ \E r \in Reqs, c \in GuardCredentials : Arrive(r, c[1], c[2])
    \/ \E r \in Reqs, k \in {"getShipment", "createShipment"} : Reject(r, k)
    \/ \E r \in Reqs, sid \in ShipIds : GetShipment(r, sid)
    \/ \E r \in Reqs, st \in DefaultStatus, rnd \in {"AAAA"} :
            CreateShipment(r, TRUE, st, rnd)

SpecGuard == Init /\ [][GuardNext]_vars

\* ------------------------------------------------------- the duty calculator
\* const rates: Record<string, number>, and rates[currency] || rates.USD
RateOf(currency) ==
    CASE currency = "EUR" -> 9400
      [] currency = "GNF" -> 1
      [] OTHER -> 8646

\* The rate literals are IEEE 754 doubles.  Each is written here as the decimal
\* n/d it stands for and its distance from it: the double is
\* n/d - (en/ed) * 2^(-s), s being the exponent that makes its significand a
\* 53-bit integer.  0.35 is 0x1.6666666666666p-2 and 0.18 is
\* 0x1.70a3d70a3d70ap-3, both below the decimal; 0.02, 0.005 and 0.0025 are
\* 0x1.47ae147ae147bp-6, p-8 and p-9, all above it.
CustomsRates ==
    [ddRate  |-> [n |-> 7, d |-> 20,  en |-> 2,  ed |-> 5,  s |-> 54],
     rtlRate |-> [n |-> 1, d |-> 50,  en |-> -3, ed |-> 25, s |-> 58],
     pcRate  |-> [n |-> 1, d |-> 200, en |-> -3, ed |-> 25, s |-> 60],
     caRate  |-> [n |-> 1, d |-> 400, en |-> -3, ed |-> 25, s |-> 61],
     tvaRate |-> [n |-> 9, d |-> 50,  en |-> 6,  ed |-> 25, s |-> 55]]

\* Math.round(v * rate) for an integer v below 2^31: the product is rounded to
\* the nearest double (ties to even), then to the nearest integer, halves up.
\* The exact product v * n/d is whole + rem/d.  Off a half, it is at least
\* 1/(2d) away from whole + 1/2 and the double product, less than 2^(-20) away
\* from it, is on the same side.  On a half, whole + 1/2 is a double with an
\* even significand, and the double product is that or, when the literal is
\* below the decimal by more than half the spacing of the doubles under
\* whole + 1/2 (v * en/ed * 2^(-s) > 2^(Log2(whole) - 53)), the double under it.
MathRound(v, rate) ==
    LET RECURSIVE Pow2(_)
        Pow2(e) == IF e = 0 THEN 1 ELSE 2 * Pow2(e - 1)
        RECURSIVE Log2(_)
        Log2(k) == IF k < 2 THEN 0 ELSE 1 + Log2(k \div 2)
        part == (v % rate.d) * rate.n
        whole == (v \div rate.d) * rate.n + part \div rate.d
        rem == part % rate.d
    IN  IF 2 * rem > rate.d THEN whole + 1
        ELSE IF 2 * rem < rate.d THEN whole
        ELSE IF /\ rate.en > 0
                /\ v > (rate.ed * Pow2(Log2(whole) + rate.s - 53)) \div rate.en
        THEN whole
        ELSE whole + 1

\* the data of the response
Duties(value, currency) ==
    LET rate == RateOf(currency)
        valueGnf == value * rate
        dd == MathRound(valueGnf, CustomsRates.ddRate)
        rtl == MathRound(valueGnf, CustomsRates.rtlRate)
        pc == MathRound(valueGnf, CustomsRates.pcRate)
        ca == MathRound(valueGnf, CustomsRates.caRate)
        tvaBase == valueGnf + dd
        tva == MathRound(tvaBase, CustomsRates.tvaRate)
        bfu == IF valueGnf > 100000000 THEN 500000
               ELSE IF valueGnf > 50000000 THEN 350000
               ELSE 200000
    IN  [cifValue |-> value, cifCurrency |-> currency, exchangeRate |-> rate,
         cifValueGnf |-> valueGnf, dd |-> dd, rtl |-> rtl, pc |-> pc, ca |-> ca,
         tvaBase |-> tvaBase, tva |-> tva, bfu |-> bfu,
         totalDuties |-> dd + rtl + pc + ca + tva + bfu]

\* POST /api/ai/calculate-customs; value is z.number().positive()
CalculateCustoms(r, value, currency) ==
    /\ Admitted(r, "calculateCustoms")
    /\ req' = [req EXCEPT ![r] =
            IF value <= 0 THEN Done("calculateCustoms", 400, "VALIDATION")
            ELSE [Done("calculateCustoms", 200, "OK") EXCEPT
                    !.duties = Duties(value, currency)]]
    /\ UNCHANGED <<client, now, store, budget>>

\* ------------------------------------------------ shipment creation on its own
\* The seeded shipment, and creations by a director and an agent of its company
\* in the same millisecond or in later ones.
InitTrack ==
    /\ now = 0
    /\ users = InitUsers
    /\ sessions = <<>>
    /\ companies = Companies
    /\ shipments = [s \in {1} |-> InitShipments[s]]
    /\ nextShip = 2
    /\ documents = <<>>
    /\ nextDoc = 1
    /\ timeline = <<[shipmentId |-> 1, action |-> "Dossier cree", userId |-> "dirA"]>>
    /\ expenses = SeedLedger
    /\ nextExp = Cardinality(DOMAIN expenses) + 1
    /\ req = [r \in Reqs |-> Idle]
    /\ budget = MaxShipReq
    /\ client = NewClient

TrackNext ==
    \/ Tick
    \/ \E r \in Reqs, c \in ShipCredentials : Arrive(r, c[1], c[2])
    \/ \E r \in Reqs, sid \in 1..MaxShip : GetShipment(r, sid)
    \/ \E r \in Reqs, valid \in BOOLEAN, st \in DefaultStatus, rnd \in Suffixes :
            CreateShipment(r, valid, st, rnd)

SpecTrack == InitTrack /\ [][TrackNext]_vars

\* CIF values and currencies: small values, values whose duties fall on a half,
\* values on both sides of the two BFU thresholds in each currency, a currency
\* the table lacks, and a value that is not positive
CalcInputs ==
    ({1, 2, 5, 10, 30, 85} \X {"USD", "EUR", "GNF"})
    \cup ({5783, 5784, 11566, 11567} \X {"USD"})
    \cup ({5319, 5320, 10638, 10639} \X {"EUR"})
    \cup ({50000000, 50000001, 100000000, 100000001, 43230, 250} \X {"GNF"})
    \cup {<<1, "XOF">>, <<0, "USD">>}

CalcNext ==
    \/ \E r \in Reqs, c \in ShipCredentials : Arrive(r, c[1], c[2])
    \/ \E r \in Reqs, in \in CalcInputs : CalculateCustoms(r, in[1], in[2])

SpecCalc == InitTrack /\ [][CalcNext]_vars

\* --------------------------------------------- the session manager on its own
\* Accounts: a director whose counter is at 0 or one short of the lock, an
\* accountant of the other company, and an account whose code of time 0 waits.
AuthUsers == {"dirA", "accB", "newB"}

InitAuthUsers(failed, active) ==
    [u \in AuthUsers |->
        [InitUsers[u] EXCEPT !.failedAttempts = IF u = "dirA" THEN failed ELSE 0,
                             !.isActive = IF u = "newB" THEN active ELSE @]]

\* the refresh tokens stored at time 0
InitSessions ==
    {<<>>,
     <<RefreshRow(SeedTokens("dirA", 0).refreshToken, "dirA", 0),
       RefreshRow(SeedTokens("accB", 0).refreshToken, "accB", 0)>>}

\* the tokens a client can hold: those generateTokens made at some time
AuthTokens ==
    {SeedTokens(u, t).accessToken : u \in {"dirA"}, t \in {0, MaxClock}}
    \cup {SeedTokens(u, t).refreshToken : u \in {"dirA", "accB"}, t \in {0}}

InitAccounts(us, ss) ==
    /\ now = 0
    /\ users \in us
    /\ sessions \in ss
    /\ companies = Companies
    /\ shipments = InitShipments
    /\ nextShip = MaxShip
    /\ documents = {}
    /\ nextDoc = 1
    /\ timeline = {}
    /\ expenses = {}
    /\ nextExp = 1
    /\ req = [r \in Reqs |-> Idle]
    /\ budget = MaxAuth
    /\ client = NewClient

\* login, refresh, logout and the guard
InitAuth ==
    InitAccounts({InitAuthUsers(failed, TRUE) : failed \in {0, MaxFailed - 1}},
                 InitSessions)

AuthNext ==
    \/ AuthTick
    \/ \E u \in {"dirA"} : Deactivate(u)
    \/ \E r \in Reqs :
        \/ \E email \in {"dirA", "newB", NoEmail, BadEmail}, ok \in BOOLEAN :
                LoginRead(r, email, ok)
        \/ \E code \in {"c2"}, commit \in BOOLEAN : LoginWrite(r, code, commit)
        \/ \E token \in AuthTokens \cup {NoToken} : Refresh(r, token)
        \/ \E token \in AuthTokens \cup {NoToken} : Arrive(r, token, NoToken)
        \/ \E token \in AuthTokens : Arrive(r, NoToken, token)
        \/ \E k \in {"me"} : Reject(r, k)
        \/ Me(r)
        \/ Logout(r)

SpecAuth == InitAuth /\ [][AuthNext]_vars

\* register, verify-email, resend-code, and the login of an unverified account
InitSignup ==
    InitAccounts({InitAuthUsers(0, active) : active \in DefaultActive}, {<<>>})

SignupNext ==
    \/ AuthTick
    \/ \E r \in Reqs :
        \/ \E email \in {"newB", "accB", NoEmail, BadEmail},
              vcode \in Codes \cup {NoCode} : VerifyEmailRead(r, email, vcode)
        \/ VerifyEmailWrite(r)
        \/ \E stored \in BOOLEAN : VerifyEmailIssue(r, stored)
        \/ \E email \in {"newB", "accB", NoEmail, BadEmail} : ResendCodeRead(r, email)
        \/ \E code \in {"c2"} : ResendCodeWrite(r, code)
        \/ \E email \in {"newB", "accB", NewEmail, BadEmail} \cup Capitals :
                RegisterRead(r, email)
        \/ \E code \in {"c2"}, active \in DefaultActive, created \in BOOLEAN :
                RegisterWrite(r, code, active, created)
        \/ \E email \in {"newB"}, ok \in {TRUE} : LoginRead(r, email, ok)
        \/ \E code \in {"c2"}, commit \in BOOLEAN : LoginWrite(r, code, commit)

SpecSignup == InitSignup /\ [][SignupNext]_vars

\* every operation of the session manager, on one stored refresh token of dirA
InitSession ==
    InitAccounts({InitAuthUsers(0, TRUE)},
                 {<<RefreshRow(SeedTokens("dirA", 0).refreshToken, "dirA", 0)>>})

SessionNext ==
    \/ AuthTick
    \/ \E r \in Reqs :
        \/ \E email \in {"dirA"}, ok \in {TRUE} : LoginRead(r, email, ok)
        \/ \E code \in {"c2"}, commit \in {TRUE} : LoginWrite(r, code, commit)
        \/ \E token \in {SeedTokens("dirA", 0).refreshToken} : Refresh(r, token)
        \/ \E token \in {SeedTokens("dirA", MaxClock).accessToken} :
                Arrive(r, token, NoToken)
        \/ Logout(r)
        \/ \E email \in {"newB"}, vcode \in {"c1"} : VerifyEmailRead(r, email, vcode)
        \/ VerifyEmailWrite(r)
        \/ \E stored \in {TRUE} : VerifyEmailIssue(r, stored)
        \/ \E email \in {NewEmail} : RegisterRead(r, email)
        \/ \E code \in {"c2"}, active \in {TRUE}, created \in {TRUE} :
                RegisterWrite(r, code, active, created)

SpecSession == InitSession /\ [][SessionNext]_vars

\* ------------------------------------------------------ the API client on its own

ClientNext ==
    \E c \in 1..NumCalls :
        \/ Call(c)
        \/ \E resp \in Responses : Respond(c, resp)
        \/ \E outcome \in {"ok", "refused", "throws"} : RefreshRespond(c, outcome)

SpecClient == Init /\ [][ClientNext]_vars

\* every fetch settles, and the event loop runs what waits on it
SpecClientLive ==
    /\ Init
    /\ [][ClientNext]_vars
    /\ \A c \in 1..NumCalls :
            /\ WF_vars(\E resp \in Responses : Respond(c, resp))
            /\ WF_vars(\E outcome \in {"ok", "refused", "throws"} : RefreshRespond(c, outcome))

\* ------------------------------------------------------------------ claims
\* The balance of a shipment as the data model states it: the amounts of its
\* PROVISION expenses minus the amounts of its paid DISBURSEMENT expenses.
RECURSIVE SignedSum(_, _, _)
SignedSum(es, sid, S) ==
    IF S = {} THEN 0
    ELSE LET i == CHOOSE x \in S : TRUE
             term == IF es[i].shipmentId # sid THEN 0
                     ELSE IF es[i].type = "PROVISION" THEN es[i].amount
                     ELSE IF es[i].type = "DISBURSEMENT" /\ es[i].paid THEN 0 - es[i].amount
                     ELSE 0
         IN  term + SignedSum(es, sid, S \ {i})

LedgerBalance(es, sid) == SignedSum(es, sid, DOMAIN es)

\* r answers or goes on as the handler of route kind, on target id
Enters(r, kind, id) ==
    /\ req[r].pc = "authed"
    /\ req'[r].pc # "authed"
    /\ req'[r].kind = kind
    /\ req'[r].status # 403
    /\ req'[r].id = id

\* r does the write of route kind and answers
Writes(r, kind) ==
    /\ req[r].pc = "write"
    /\ req[r].kind = kind
    /\ req'[r].pc = "done"

\* the expense is stored and belongs to a shipment of r's company
Visible(r, id) ==
    /\ id \in DOMAIN expenses
    /\ expenses[id].shipmentId \in DOMAIN shipments
    /\ shipments[expenses[id].shipmentId].companyId = req[r].user.companyId

\* C1: after any sequence of createExpense, updateExpense, payExpense and
\* deleteExpense the balance of every shipment is never negative.
C1_BalanceNeverNegative ==
    \A sid \in DOMAIN shipments : LedgerBalance(expenses, sid) >= 0

\* C2: of two pay requests on two distinct unpaid disbursements of one shipment
\* that both read before either wrote, each amount within the balance they read
\* and the two together above it, exactly one succeeds and the other is
\* answered InsufficientBalance.
C2_ExactlyOnePaySucceeds ==
    \A r \in Reqs, q \in Reqs :
        ( /\ r # q
          /\ q \in req[r].overlap
          /\ req[r].pc = "done" /\ req[q].pc = "done"
          /\ req[r].kind = "payExpense" /\ req[q].kind = "payExpense"
          /\ req[r].id # req[q].id
          /\ req[r].snap.type = "DISBURSEMENT" /\ req[q].snap.type = "DISBURSEMENT"
          /\ req[r].snap.shipmentId = req[q].snap.shipmentId
          /\ req[r].bal = req[q].bal
          /\ req[r].snap.amount <= req[r].bal /\ req[q].snap.amount <= req[r].bal
          /\ req[r].snap.amount + req[q].snap.amount > req[r].bal )
        => \/ req[r].status = 200 /\ req[q].code = "INSUFFICIENT_BALANCE"
           \/ req[q].status = 200 /\ req[r].code = "INSUFFICIENT_BALANCE"

\* C3: a pay of an unpaid disbursement that no other request interferes with
\* is answered InsufficientBalance, the ledger untouched, when the balance is
\* below the amount; otherwise it goes on to its write, which answers 200, sets
\* paid and paidAt = now on that expense alone and lowers the balance by the
\* amount.
C3_Step(r, id) ==
    /\ ( /\ Enters(r, "payExpense", id)
         /\ Visible(r, id)
         /\ ~expenses[id].paid
         /\ expenses[id].type = "DISBURSEMENT" )
       => IF LedgerBalance(expenses, expenses[id].shipmentId) < expenses[id].amount
          THEN /\ req'[r].pc = "done"
               /\ req'[r].status = 400
               /\ req'[r].code = "INSUFFICIENT_BALANCE"
               /\ expenses' = expenses
          ELSE /\ req'[r].pc = "write"
               /\ expenses' = expenses
    /\ ( /\ Writes(r, "payExpense")
         /\ req[r].id = id
         /\ req[r].snap.type = "DISBURSEMENT"
         /\ id \in DOMAIN expenses
         /\ expenses[id] = req[r].snap
         /\ LedgerBalance(expenses, req[r].snap.shipmentId) = req[r].bal )
       => /\ req'[r].status = 200
          /\ DOMAIN expenses' = DOMAIN expenses
          /\ expenses'[id].paid
          /\ expenses'[id].paidAt = now
          /\ \A j \in DOMAIN expenses : j # id => expenses'[j] = expenses[j]
          /\ LedgerBalance(expenses', req[r].snap.shipmentId)
               = LedgerBalance(expenses, req[r].snap.shipmentId) - req[r].snap.amount
          /\ LedgerBalance(expenses', req[r].snap.shipmentId) >= 0

\* C3: every step of a pay of an unpaid disbursement is as C3_Step states:
\* InsufficientBalance and no change below the amount, success and the balance
\* lowered by the amount otherwise.
C3_PayChecksBalance == [][\A r \in Reqs, id \in ExpIds : C3_Step(r, id)]_vars

\* C3 witness: a pay of a disbursement has succeeded next to a pay answered
\* InsufficientBalance
C3_Witness ==
    \E r \in Reqs, q \in Reqs :
        /\ req[r].pc = "done" /\ req[r].kind = "payExpense" /\ req[r].status = 200
        /\ req[r].snap.type = "DISBURSEMENT" /\ req[r].overlap = {}
        /\ req[r].id \in DOMAIN expenses /\ expenses[req[r].id].paid
        /\ req[q].pc = "done" /\ req[q].code = "INSUFFICIENT_BALANCE"

\* C4: the balance GET /shipment/:shipmentId reports is the provisions of the
\* shipment minus its paid disbursements, and the balance a pay of a
\* disbursement compares the amount against is that same quantity.
C4_Step(r) ==
    /\ ( /\ req[r].pc = "authed"
         /\ req'[r].kind = "shipmentSummary"
         /\ req'[r].status = 200 )
       => req'[r].sum.balance = LedgerBalance(expenses, req'[r].id)
    /\ ( /\ req[r].pc = "authed"
         /\ req'[r].kind = "payExpense"
         /\ req'[r].pc = "write" \/ req'[r].code = "INSUFFICIENT_BALANCE"
         /\ expenses[req'[r].id].type = "DISBURSEMENT" )
       => req'[r].bal = LedgerBalance(expenses, expenses[req'[r].id].shipmentId)

\* C4: every summary reports provisions minus paid disbursements, the quantity a
\* pay compares the amount against.
C4_SummaryIsLedgerBalance == [][\A r \in Reqs : C4_Step(r)]_vars

\* C4 witness: a summary reported a balance that an unpaid provision raises and
\* a paid disbursement lowers, after a payment
C4_Witness ==
    \E r \in Reqs, q \in Reqs :
        /\ req[r].pc = "done" /\ req[r].kind = "shipmentSummary" /\ req[r].status = 200
        /\ req[r].sum.paid > 0 /\ req[r].sum.unpaid > 0
        /\ req[r].sum.balance > 0
        /\ req[q].pc = "done" /\ req[q].kind = "payExpense" /\ req[q].status = 200

\* C5: a pay of an expense that is already paid, provision or disbursement, is
\* answered AlreadyPaid and changes no expense.
C5_Step(r, id) ==
    ( /\ Enters(r, "payExpense", id)
      /\ Visible(r, id)
      /\ expenses[id].paid )
    => /\ req'[r].pc = "done"
       /\ req'[r].status = 400
       /\ req'[r].code = "ALREADY_PAID"
       /\ expenses' = expenses

\* C5: every pay of an already paid expense is answered AlreadyPaid and leaves
\* the ledger as it was.
C5_PayRejectsPaid == [][\A r \in Reqs, id \in ExpIds : C5_Step(r, id)]_vars

\* C5 witness: a pay was answered AlreadyPaid for a paid provision and for a
\* paid disbursement
C5_Witness ==
    \E r \in Reqs, q \in Reqs :
        /\ req[r].pc = "done" /\ req[r].code = "ALREADY_PAID"
        /\ req[q].pc = "done" /\ req[q].code = "ALREADY_PAID"
        /\ req[r].id \in DOMAIN expenses /\ req[q].id \in DOMAIN expenses
        /\ expenses[req[r].id].type = "PROVISION" /\ expenses[req[r].id].paid
        /\ expenses[req[q].id].type = "DISBURSEMENT" /\ expenses[req[q].id].paid

\* C6: a delete of an expense that is paid when the request looks it up is
\* answered CannotDeletePaid and changes no expense; a delete that removes an
\* expense had found it unpaid.
C6_Step(r, id) ==
    /\ ( /\ Enters(r, "deleteExpense", id)
         /\ Visible(r, id)
         /\ expenses[id].paid )
       => /\ req'[r].pc = "done"
          /\ req'[r].status = 400
          /\ req'[r].code = "CANNOT_DELETE_PAID"
          /\ expenses' = expenses
    /\ ( /\ Writes(r, "deleteExpense")
         /\ req[r].id = id
         /\ DOMAIN expenses' # DOMAIN expenses )
       => ~req[r].snap.paid

\* C6: every delete of a paid expense is answered CannotDeletePaid and leaves
\* the ledger as it was.
C6_DeleteRejectsPaid == [][\A r \in Reqs, id \in ExpIds : C6_Step(r, id)]_vars

\* C6 witness: a delete was answered CannotDeletePaid and the paid expense is
\* still stored
C6_Witness ==
    \E r \in Reqs :
        /\ req[r].pc = "done" /\ req[r].code = "CANNOT_DELETE_PAID"
        /\ req[r].id \in DOMAIN expenses /\ expenses[req[r].id].paid

\* C7: once an expense is paid it stays paid and its paidAt never changes.
C7_PaidIsFinal ==
    [][\A id \in DOMAIN expenses :
          (id \in DOMAIN expenses' /\ expenses[id].paid)
          => expenses'[id].paid /\ expenses'[id].paidAt = expenses[id].paidAt]_vars

\* the shipment id is stored and belongs to another company than u's
Foreign(u, sid) == sid \in DOMAIN shipments /\ shipments[sid].companyId # u.companyId

\* C8: what a read answers to a caller u.  A list holds only expenses of
\* shipments of u's company, whatever the filters; a shipment summary and a
\* shipment get on an id that u's company does not own are answered NotFound
\* with an empty payload, be the id another company's or no shipment's at all.
C8_Step(r) ==
    LET u == req[r].user
        ans == req'[r]
    IN  /\ ( /\ req[r].pc = "authed"
             /\ ans.pc = "done"
             /\ ans.kind = "listExpenses" )
           => \A k \in 1..Len(ans.ids) :
                /\ ans.ids[k] \in DOMAIN expenses
                /\ expenses[ans.ids[k]].shipmentId \in DOMAIN shipments
                /\ shipments[expenses[ans.ids[k]].shipmentId].companyId = u.companyId
        /\ ( /\ req[r].pc = "authed"
             /\ ans.pc = "done"
             /\ ans.kind \in {"shipmentSummary", "getShipment"}
             /\ Foreign(u, ans.id) \/ ans.id \notin DOMAIN shipments )
           => ans = [Done(ans.kind, 404, "NOT_FOUND") EXCEPT !.user = u, !.id = ans.id]

\* C8: every answer of listExpenses, shipmentSummary and shipment get keeps to
\* the caller's company, as C8_Step states.
C8_ReadsAreScoped == [][\A r \in Reqs : C8_Step(r)]_vars

\* C8 witness: a list filtered on another company's shipment, which has
\* expenses, came back empty, and a summary or get of another company's shipment
\* was answered NotFound
C8_Witness ==
    \E r \in Reqs, q \in Reqs :
        /\ req[r].pc = "done" /\ req[r].kind = "listExpenses"
        /\ Foreign(req[r].user, req[r].id)
        /\ OfShipment(expenses, req[r].id) # {}
        /\ req[r].ids = <<>>
        /\ req[q].pc = "done" /\ req[q].kind \in {"shipmentSummary", "getShipment"}
        /\ Foreign(req[q].user, req[q].id)
        /\ req[q].status = 404

\* the slot has no request in flight
Free(r) == req[r].pc \in {"idle", "done"}

\* a request arrives in slot r
Arrives(r) ==
    /\ Free(r)
    /\ \A q \in Reqs : q < r => ~Free(q)
    /\ budget' < budget

\* C9: a request that arrives without a valid access credential is answered 401
\* there and then; one whose user the guard refuses is answered 401 at its next
\* step; neither changes the store; and every step that changes the store is
\* the step of a request that carried a valid credential of a user the guard
\* accepts.
C9_Step ==
    /\ \A r \in Reqs :
        Arrives(r)
        => /\ store' = store
           /\ IF req'[r].good
              THEN req'[r].pc = "authed"
              ELSE req'[r].pc = "done" /\ req'[r].status = 401
    /\ \A r \in Reqs :
        ( /\ req[r].pc = "authed"
          /\ GuardCode(req[r].user) # "ok"
          /\ req'[r] # req[r] )
        => /\ store' = store
           /\ req'[r].pc = "done"
           /\ req'[r].status = 401
    /\ store' # store
        => \E r \in Reqs :
            /\ req[r].pc \in {"authed", "write", "event"}
            /\ req'[r] # req[r]
            /\ req[r].good
            /\ GuardCode(req[r].user) = "ok"

\* C9: no request changes ledger or shipment state unless it carried a valid
\* access credential the guard accepted; the others are answered 401.
C9_NoWriteWithoutCredential == [][C9_Step]_vars

\* C9 witness: a request with an expired token was answered 401, after a request
\* of an accepted user created a row
C9_Witness ==
    \E r \in Reqs :
        /\ req[r].pc = "done" /\ req[r].status = 401
        /\ req[r].code = "TOKEN_EXPIRED"
        /\ ~req[r].good
        /\ nextExp + nextShip + nextDoc > 3 + 3 + 1

\* DIRECTOR > ACCOUNTANT > AGENT > CLIENT
RoleRank(role) ==
    CASE role = "DIRECTOR" -> 4 [] role = "ACCOUNTANT" -> 3 [] role = "AGENT" -> 2
      [] OTHER -> 1

\* what is allowed to a role is allowed to every higher role
Hierarchical ==
    \A k \in Kinds : \A lo \in RequiredRoles(k), hi \in Roles :
        RoleRank(hi) > RoleRank(lo) => hi \in RequiredRoles(k)

\* C10: a step of an accepted user u into a ledger write when u is AGENT or
\* CLIENT, or into a shipment or document write when u is CLIENT, is the answer
\* Forbidden and changes nothing; and no such user's step changes the ledger,
\* respectively the shipments.
C10_Step(r) ==
    LET u == req[r].user
        k == req'[r].kind
    IN  /\ ( /\ req[r].pc = "authed"
             /\ GuardCode(u) = "ok"
             /\ req'[r] # req[r]
             /\ \/ k \in LedgerWrites /\ u.role \in {"AGENT", "CLIENT"}
                \/ k \in ShipWrites /\ u.role = "CLIENT" )
           => /\ req'[r] = [Done(k, 403, "FORBIDDEN") EXCEPT !.user = u]
              /\ store' = store
        /\ (ledgerStore' # ledgerStore /\ req'[r] # req[r])
           => u.role \notin {"AGENT", "CLIENT"}
        /\ (shipStore' # shipStore /\ req'[r] # req[r])
           => u.role # "CLIENT"

\* C10: role gating is hierarchical; ledger writes are Forbidden to AGENT and
\* CLIENT, shipment and document writes to CLIENT, and change nothing.
C10_RoleGating == [][Hierarchical /\ \A r \in Reqs : C10_Step(r)]_vars

\* C10 witness: an AGENT was answered Forbidden on a ledger write and a CLIENT
\* on a shipment or document write
C10_Witness ==
    \E r \in Reqs, q \in Reqs :
        /\ req[r].pc = "done" /\ req[r].status = 403
        /\ req[r].kind \in LedgerWrites /\ req[r].user.role = "AGENT"
        /\ req[q].pc = "done" /\ req[q].status = 403
        /\ req[q].kind \in ShipWrites /\ req[q].user.role = "CLIENT"

\* ------------------------------------------------------ session manager claims
\* request r is answered in this step with a new access credential
Issues(r) ==
    /\ req'[r] # req[r]
    /\ req'[r].pc = "done"
    /\ req'[r].status = 200
    /\ req'[r].access.present

\* C11: whenever login, verify-email or refresh hands out an access credential,
\* the user it is for is active and verified in the stored state of that moment;
\* so a refresh with a stored, unrevoked, unexpired refresh credential of a user
\* deactivated since hands out nothing.
C11_Step ==
    \A r \in Reqs :
        Issues(r) =>
            LET u == req'[r].access.userId
            IN  /\ u \in DOMAIN users'
                /\ users'[u].isActive
                /\ users'[u].emailVerified

C11_NoCredentialForInactive == [][C11_Step]_vars

\* request r is a login answered in this step, and what it read of the account
\* is still what is stored
LoginAnswers(r) ==
    /\ req[r].pc = "login"
    /\ req'[r].pc = "done"
    /\ req[r].account.found
    /\ req[r].account = FindUserByEmail(users, req[r].email)

\* C12: on a verified, active account, a wrong password raises the counter by
\* one and the one that takes it to MaxFailed locks the account for LockTime;
\* while the lock lasts every login, the right password included, is answered
\* Locked with the time left and nothing is issued or changed; the first login
\* with the right password after the window succeeds, puts the counter back to
\* 0 and clears the lock.
C12_Step ==
    \A r \in Reqs :
        LoginAnswers(r) /\ req[r].account.emailVerified /\ req[r].account.isActive =>
            LET user == req[r].account
                u == user.id
                locked == user.lockedUntil # NoDate /\ now < user.lockedUntil
            IN  /\ locked =>
                    /\ req'[r].status = 423
                    /\ req'[r].code = "LOCKED"
                    /\ req'[r].mins = user.lockedUntil - now
                    /\ req'[r].mins > 0
                    /\ ~req'[r].access.present
                    /\ ~req'[r].refresh.present
                    /\ UNCHANGED authStore
                /\ ~locked /\ ~req[r].ok =>
                    /\ req'[r].status = 401
                    /\ ~req'[r].access.present
                    /\ users'[u].failedAttempts = user.failedAttempts + 1
                    /\ IF user.failedAttempts + 1 >= MaxFailed
                       THEN users'[u].lockedUntil = now + LockTime
                       ELSE users'[u].lockedUntil = NoDate
                    /\ UNCHANGED sessions
                /\ ~locked /\ req[r].ok /\ req'[r].status # 500 =>
                    /\ req'[r].status = 200
                    /\ req'[r].access.present
                    /\ req'[r].refresh.present
                    /\ users'[u].failedAttempts = 0
                    /\ users'[u].lockedUntil = NoDate

C12_Lockout == [][C12_Step]_vars

\* a login with the right password has succeeded on an account that the fifth
\* wrong password had locked, once the window was over; the counter is back to 0
C12_Witness ==
    \E r \in Reqs :
        /\ req[r].pc = "done"
        /\ req[r].kind = "login"
        /\ req[r].status = 200
        /\ req[r].account.failedAttempts >= MaxFailed
        /\ req[r].account.lockedUntil # NoDate
        /\ req[r].account.lockedUntil <= now
        /\ users[req[r].account.id].failedAttempts = 0
        /\ users[req[r].account.id].lockedUntil = NoDate

\* request r is a verify-email past its tests in this step, and what it read of
\* the account is still what is stored
VerifyAnswers(r) ==
    /\ req[r].pc = "verify"
    /\ req'[r].pc # "verify"
    /\ req[r].account.found
    /\ req[r].account = FindUserByEmail(users, req[r].email)

\* C13: verify-email with the stored code, no later than CodeLife after its
\* issue, makes the user verified and active and clears the code; verified is
\* never taken back, and a verify-email on a verified user is answered
\* AlreadyVerified and changes nothing; with the stored code later than
\* CodeLife after its issue it is answered Expired and the user stays unverified.
C13_Step ==
    /\ \A u \in DOMAIN users : users[u].emailVerified => users'[u].emailVerified
    /\ \A r \in Reqs :
        VerifyAnswers(r) =>
            LET user == req[r].account
                u == user.id
                correct == req[r].vcode = user.verificationCode
            IN  /\ user.emailVerified =>
                    /\ req'[r].pc = "done"
                    /\ req'[r].status = 400
                    /\ req'[r].code = "ALREADY_VERIFIED"
                    /\ UNCHANGED authStore
                /\ ~user.emailVerified /\ correct /\ now <= user.codeExpiresAt =>
                    /\ req'[r].pc = "issue"
                    /\ users'[u].emailVerified
                    /\ users'[u].isActive
                    /\ users'[u].verificationCode = NoCode
                    /\ users'[u].codeExpiresAt = NoDate
                /\ ~user.emailVerified /\ correct /\ now > user.codeExpiresAt =>
                    /\ req'[r].pc = "done"
                    /\ req'[r].status = 400
                    /\ req'[r].code = "EXPIRED"
                    /\ ~users'[u].emailVerified
                    /\ UNCHANGED authStore

C13_VerifyEmail == [][C13_Step]_vars

\* newB, unverified at the start, has been verified with its code, and a later
\* verify-email for it was answered AlreadyVerified
C13_Witness ==
    \E r \in Reqs :
        /\ req[r].pc = "done"
        /\ req[r].kind = "verifyEmail"
        /\ req[r].code = "ALREADY_VERIFIED"
        /\ req[r].email = "newB"
        /\ users["newB"].emailVerified
        /\ users["newB"].isActive
        /\ users["newB"].verificationCode = NoCode
        /\ \E i \in DOMAIN sessions : sessions[i].userId = "newB"

\* request r is a refresh answered in this step
RefreshAnswers(r) ==
    /\ req'[r] # req[r]
    /\ req'[r].pc = "done"
    /\ req'[r].kind = "refresh"

\* the stored rows of a presented refresh token
RowsOf(ss, token) ==
    {i \in DOMAIN ss : ss[i].token = token /\ ss[i].userId = token.userId}

\* request r is a logout answered in this step
LogoutAnswers(r) ==
    /\ req[r].pc = "authed"
    /\ req'[r].pc = "done"
    /\ req'[r].kind = "logout"
    /\ req'[r].status = 200

\* C14: a refresh with the refresh credential a login stored, unrevoked and
\* unexpired, is answered 200 with an access credential for that user which the
\* guard's verification accepts, and which the guard admits while the user is
\* active and verified; a logout leaves no unrevoked refresh credential of its
\* user, and a refresh with a credential whose rows are all revoked is answered
\* 401.
C14_Step ==
    \A r \in Reqs :
        /\ RefreshAnswers(r) =>
            LET token == req'[r].refresh
                rows == IF token.present THEN RowsOf(sessions, token) ELSE {}
            IN  /\ (/\ token.present
                    /\ token.secret = "REFRESH"
                    /\ now < token.exp
                    /\ \E i \in rows : /\ sessions[i].revokedAt = NoDate
                                       /\ now < sessions[i].expiresAt) =>
                        /\ req'[r].status = 200
                        /\ req'[r].access.userId = token.userId
                        /\ VerifyJwt(req'[r].access, "JWT", now) = "ok"
                        /\ ValidAccess(req'[r].access, now)
                        /\ (users[token.userId].isActive /\ users[token.userId].emailVerified
                                => GuardCode(FindUser(users, req'[r].access.userId)) = "ok")
                /\ (\A i \in rows : sessions[i].revokedAt # NoDate) =>
                        /\ req'[r].status = 401
                        /\ ~req'[r].access.present
        /\ LogoutAnswers(r) =>
            \A i \in DOMAIN sessions' :
                sessions'[i].userId = req[r].user.id => sessions'[i].revokedAt # NoDate

C14_RefreshUntilLogout == [][C14_Step]_vars

\* a refresh with a stored refresh credential was answered 200 with an access
\* credential for its user, the user's logout then revoked the credential, and
\* the refresh that followed with the same, still unexpired credential was
\* answered 401
C14_Witness ==
    \E r, q \in Reqs :
        /\ req[q].pc = "done"
        /\ req[q].kind = "refresh"
        /\ req[q].status = 200
        /\ req[q].access.userId = req[q].refresh.userId
        /\ req[r].pc = "done"
        /\ req[r].kind = "refresh"
        /\ req[r].status = 401
        /\ req[r].refresh = req[q].refresh
        /\ now < req[r].refresh.exp
        /\ \E i \in RowsOf(sessions, req[r].refresh) :
                sessions[i].revokedAt # NoDate /\ now < sessions[i].expiresAt

\* the stored refresh credential i can no longer be used at time t
Spent(ss, i, t) == ss[i].revokedAt # NoDate \/ ss[i].expiresAt <= t

\* C15: a stored refresh credential is never removed, its revoked-at date, once
\* set, is never cleared or changed, and its expiry never moves while the clock
\* never goes back, so a credential revoked or expired stays so; and a refresh
\* with a credential whose stored rows are all revoked or expired fails.
C15_Step ==
    /\ now' >= now
    /\ Len(sessions') >= Len(sessions)
    /\ \A i \in DOMAIN sessions :
        /\ sessions'[i].token = sessions[i].token
        /\ sessions'[i].userId = sessions[i].userId
        /\ sessions'[i].expiresAt = sessions[i].expiresAt
        /\ sessions[i].revokedAt # NoDate => sessions'[i].revokedAt = sessions[i].revokedAt
        /\ Spent(sessions, i, now) => Spent(sessions', i, now')
    /\ \A r \in Reqs :
        RefreshAnswers(r) /\ req'[r].refresh.present
        /\ (\A i \in RowsOf(sessions, req'[r].refresh) : Spent(sessions, i, now)) =>
            /\ req'[r].status = 401
            /\ ~req'[r].access.present

Issued(r) == req[r].pc = "done" /\ req[r].status = 200

\* C16: the guard, on a cookie or a bearer header, never admits a request on a
\* refresh credential: the tokens stored as refresh credentials or handed out as
\* such fail its verification, and a request passes it only on a token signed
\* with the access secret; refresh never accepts an access credential: the
\* access tokens handed out fail its verification and a refresh answered 200
\* was given a token signed with the refresh secret.
C16_SinglePurpose ==
    /\ \A i \in DOMAIN sessions : VerifyJwt(sessions[i].token, "JWT", now) # "ok"
    /\ \A r \in Reqs :
        /\ Issued(r) /\ req[r].kind \in {"login", "verifyEmail"} =>
                VerifyJwt(req[r].refresh, "JWT", now) # "ok"
        /\ Issued(r) /\ req[r].access.present =>
                VerifyJwt(req[r].access, "REFRESH", now) # "ok"
        /\ Issued(r) /\ req[r].kind = "refresh" =>
                req[r].refresh.secret = "REFRESH" /\ ~ValidAccess(req[r].refresh, now)
        /\ req[r].pc = "authed" => req[r].good

\* the guard has refused a refresh credential and refresh has refused an
\* unexpired access credential
C16_Witness ==
    \E r, q \in Reqs :
        /\ req[r].pc = "done"
        /\ req[r].kind = "none"
        /\ req[r].status = 401
        /\ req[r].code = "INVALID_TOKEN"
        /\ ~req[r].good
        /\ req[q].pc = "done"
        /\ req[q].kind = "refresh"
        /\ req[q].status = 401
        /\ req[q].code = "INVALID_TOKEN"
        /\ ValidAccess(req[q].refresh, now)

\* C17: a logout sets revoked-at, to the time of the logout, on every unrevoked
\* refresh credential of its user, leaves that user's revoked credentials as
\* they are, touches no credential of another user, and changes no user.
C17_Step ==
    \A r \in Reqs :
        LogoutAnswers(r) =>
            LET u == req[r].user.id
            IN  /\ DOMAIN sessions' = DOMAIN sessions
                /\ \A i \in DOMAIN sessions :
                    IF sessions[i].userId = u /\ sessions[i].revokedAt = NoDate
                    THEN sessions'[i] = [sessions[i] EXCEPT !.revokedAt = now]
                    ELSE sessions'[i] = sessions[i]
                /\ UNCHANGED users

C17_LogoutFrame == [][C17_Step]_vars

\* a user has logged out twice: the credential the first logout revoked keeps
\* its date, the one issued since carries a later one, and another user's
\* credential is unrevoked
C17_Witness ==
    \E r \in Reqs :
        /\ req[r].pc = "done"
        /\ req[r].kind = "logout"
        /\ req[r].status = 200
        /\ \E i, j, k \in DOMAIN sessions :
            /\ sessions[i].userId = req[r].user.id
            /\ sessions[j].userId = req[r].user.id
            /\ sessions[i].revokedAt # NoDate
            /\ sessions[j].revokedAt # NoDate
            /\ sessions[i].revokedAt < sessions[j].revokedAt
            /\ sessions[k].userId # req[r].user.id
            /\ sessions[k].revokedAt = NoDate

\* C18: a login stores its refresh credential and resets counter, lock and
\* last-login together or not at all: answered 200 it has done both, answered
\* anything else, the failure of the transaction included, it has stored no
\* credential and reset nothing.
C18_Step ==
    \A r \in Reqs :
        req[r].pc = "login" /\ req'[r].pc = "done" =>
            LET u == req[r].account.id
                stores == sessions' # sessions
                resets == /\ u \in DOMAIN users
                          /\ users'[u] = [users[u] EXCEPT !.failedAttempts = 0,
                                                          !.lockedUntil = NoDate,
                                                          !.lastLogin = now]
            IN  /\ req'[r].status = 200 =>
                    /\ sessions' = Append(sessions,
                                          RefreshRow(req'[r].refresh, u, now))
                    /\ resets
                    /\ \A v \in DOMAIN users : v # u => users'[v] = users[v]
                /\ req'[r].status # 200 =>
                    /\ ~stores
                    /\ \A v \in DOMAIN users : users'[v].lastLogin = users[v].lastLogin
                /\ req'[r].status = 500 => UNCHANGED authStore

C18_LoginIsAtomic == [][C18_Step]_vars

\* one login of a user failed in its transaction and another succeeded: one
\* credential of the user is stored, and counter, lock and last-login are reset
C18_Witness ==
    \E r, q \in Reqs :
        /\ req[r].pc = "done"
        /\ req[r].kind = "login"
        /\ req[r].status = 500
        /\ req[q].pc = "done"
        /\ req[q].kind = "login"
        /\ req[q].status = 200
        /\ req[q].email = req[r].email
        /\ req[q].account.failedAttempts > 0
        /\ Cardinality({i \in DOMAIN sessions : sessions[i].userId = req[q].email}) = 1
        /\ users[req[q].email].failedAttempts = 0
        /\ users[req[q].email].lastLogin # NoDate

\* C19: a login with a wrong password on an existing account that is not locked
\* is answered with the status and message of a login with an unknown email,
\* whatever the failure counter and whether or not the account is verified or
\* active.
C19_Step ==
    \A r \in Reqs :
        req[r].pc = "login" /\ req'[r].pc = "done" =>
            LET user == req[r].account
            IN  (~user.found \/ (~req[r].ok /\ ~Locked(user, now))) =>
                    /\ req'[r].status = 401
                    /\ req'[r].code = "INVALID_CREDENTIALS"

C19_WrongPasswordLooksUnknown == [][C19_Step]_vars

\* request r is a resend-code answered in this step
ResendAnswers(r) ==
    /\ req'[r] # req[r]
    /\ req'[r].pc = "done"
    /\ req'[r].kind = "resendCode"

\* C20: resend-code gives one and the same answer for an unverified account, a
\* verified account, an unknown email and a malformed one; of the state it
\* changes only the code and the code's expiry of the account it read, and only
\* when that account exists and is unverified.
C20_Step ==
    \A r \in Reqs :
        /\ ResendAnswers(r) =>
            /\ req'[r].status = 200
            /\ req'[r].code = "CODE_SENT_IF_EXISTS"
            /\ ~req'[r].access.present
            /\ UNCHANGED sessions
            /\ req[r].pc # "resend" => UNCHANGED users
        /\ ResendAnswers(r) /\ req[r].pc = "resend"
           /\ req[r].account = FindUserByEmail(users, req[r].email) =>
            LET user == req[r].account
            IN  IF user.found /\ ~user.emailVerified
                THEN /\ users'[user.id].verificationCode \in Codes
                     /\ users' = [users EXCEPT
                            ![user.id].verificationCode = users'[user.id].verificationCode,
                            ![user.id].codeExpiresAt = now + CodeLife]
                ELSE UNCHANGED users

C20_ResendCode == [][C20_Step]_vars

\* resend-code has given the same answer for the unverified newB, whose code it
\* replaced, and for an email that is verified, unknown or malformed
C20_Witness ==
    \E r, q \in Reqs :
        /\ req[r].pc = "done"
        /\ req[r].kind = "resendCode"
        /\ req[r].email = "newB"
        /\ ~users["newB"].emailVerified
        /\ users["newB"].verificationCode = "c2"
        /\ req[q].pc = "done"
        /\ req[q].kind = "resendCode"
        /\ req[q].email \in {"accB", NoEmail, BadEmail}
        /\ req[q].status = req[r].status
        /\ req[q].code = req[r].code
        /\ users["accB"].verificationCode = NoCode

\* the case-normalized form of an email
CaseFold(email) ==
    IF email = "REGC" THEN "regC" ELSE IF email = "NEWB" THEN "newB" ELSE email

\* request r is a register answered in this step
RegisterAnswers(r) ==
    /\ req[r].pc = "register"
    /\ req'[r].pc = "done"

\* C21: a register creates a company and its DIRECTOR user together or neither,
\* and only for an email no user has; for the email of an unverified user it
\* creates nothing and only replaces that user's code and expiry; for the email
\* of a verified user it fails and changes nothing; so no two users ever have
\* the same case-normalized email, and stored emails are normalized.
C21_Step ==
    /\ \A u, v \in DOMAIN users' : CaseFold(u) = CaseFold(v) => u = v
    /\ \A u \in DOMAIN users' : CaseFold(u) = u
    /\ (companies' # companies) <=> (DOMAIN users' # DOMAIN users)
    /\ \A r \in Reqs :
        RegisterAnswers(r) =>
            LET user == req[r].account
                email == req[r].email
                fresh == DOMAIN users' \ DOMAIN users
            IN  /\ fresh # {} =>
                    /\ ~user.found
                    /\ email \notin DOMAIN users
                    /\ fresh = {email}
                    /\ req'[r].status = 201
                    /\ users'[email].role = "DIRECTOR"
                    /\ ~users'[email].emailVerified
                    /\ users'[email].companyId \in companies' \ companies
                    /\ companies' = companies \cup {users'[email].companyId}
                    /\ \A u \in DOMAIN users : users'[u] = users[u]
                /\ req'[r].status = 201 => fresh # {}
                /\ user = FindUserByEmail(users, email) /\ user.found /\ ~user.emailVerified =>
                    /\ req'[r].status = 200
                    /\ UNCHANGED <<companies, sessions>>
                    /\ users'[email].verificationCode \in Codes
                    /\ users' = [users EXCEPT
                            ![email].verificationCode = users'[email].verificationCode,
                            ![email].codeExpiresAt = now + CodeLife]
                /\ user = FindUserByEmail(users, email) /\ user.found /\ user.emailVerified =>
                    /\ req'[r].status = 400
                    /\ req'[r].code = "EMAIL_IN_USE"
                    /\ UNCHANGED authStore

C21_Register == [][C21_Step]_vars

\* NewEmail has been registered: its company and its DIRECTOR are stored under
\* the normalized email, and another register for the same email, which had
\* read no user, has failed without a second company
C21_Witness ==
    \E r, q \in Reqs :
        /\ r # q
        /\ req[r].pc = "done" /\ req[r].kind = "register" /\ req[r].status = 201
        /\ req[q].pc = "done" /\ req[q].kind = "register" /\ req[q].status = 500
        /\ req[r].email = NewEmail
        /\ req[q].email = NewEmail
        /\ NewEmail \in DOMAIN users
        /\ users[NewEmail].role = "DIRECTOR"
        /\ users[NewEmail].companyId \in companies
        /\ Cardinality(companies) = Cardinality(Companies) + 1

\* ------------------------------------------------------------ shipment claims
\* request r, an update or an archive of a shipment, is answered 200 in this step
ShipmentAnswers(r) ==
    /\ req[r].pc \in {"write", "event"}
    /\ req[r].kind \in {"updateShipment", "archiveShipment"}
    /\ req'[r].pc = "done"
    /\ req'[r].status = 200

\* C22: an update or an archive that changes the stored status of its shipment
\* appends exactly one timeline event, for that shipment, with the new status
\* and the acting user; one that leaves the status as it was appends none.
\* (For operations that no other write to the shipment overlaps.)
C22_Step ==
    \A r \in Reqs :
        ShipmentAnswers(r) =>
            LET sid == req[r].id
                old == IF req[r].pc = "write" THEN shipments[sid].status ELSE req[r].was
                new == shipments'[sid].status
            IN  (req[r].pc = "write" => req[r].was = shipments[sid].status) =>
                    IF new # old
                    THEN timeline' = Append(timeline,
                            [shipmentId |-> sid, action |-> new, userId |-> req[r].user.id])
                    ELSE timeline' = timeline

C22_StatusChangeHasEvent == [][C22_Step]_vars

\* C23: in an update the status change and its timeline event are one unit: an
\* update that goes on to write an event has changed the stored status, that
\* event is written, and an update that writes no event has left the stored
\* status as it was; so with a failure between the writes and with two updates
\* of one shipment at a time, no status changes without its event and there are
\* as many status events as status changes.
C23_Step ==
    \A r \in Reqs :
        req[r].kind = "updateShipment" =>
            LET sid == req[r].id
            IN  /\ req[r].pc = "write" /\ req'[r].pc = "event" =>
                    shipments'[sid].status # shipments[sid].status
                /\ req[r].pc = "write" /\ req'[r].pc = "done" =>
                    shipments'[sid].status = shipments[sid].status
                /\ req[r].pc = "event" /\ req'[r].pc = "done" =>
                    timeline' = Append(timeline,
                        [shipmentId |-> sid, action |-> req[r].patch.status,
                         userId |-> req[r].user.id])

C23_StatusAndEventTogether == [][C23_Step]_vars

\* C24: an archive sets the status of its shipment to ARCHIVED and nothing
\* else: no row of any table is removed, the shipment's other fields, every
\* other shipment, the expenses, the documents and the timeline stay as they
\* are; and no step of any shipment operation removes a shipment.
C24_Step ==
    /\ DOMAIN shipments \subseteq DOMAIN shipments'
    /\ \A r \in Reqs :
        req[r].pc = "write" /\ req[r].kind = "archiveShipment" /\ req'[r].pc = "done" =>
            /\ req'[r].status = 200
            /\ shipments' = [shipments EXCEPT ![req[r].id].status = "ARCHIVED"]
            /\ UNCHANGED <<expenses, documents, timeline, nextShip, nextDoc, nextExp>>

C24_ArchiveIsSoft == [][C24_Step]_vars

\* a shipment that was not archived has been: it is stored with status
\* ARCHIVED, in its company, with its expenses, its document and its first
\* timeline event
C24_Witness ==
    \E r \in Reqs :
        /\ req[r].pc = "done"
        /\ req[r].kind = "archiveShipment"
        /\ req[r].status = 200
        /\ req[r].id \in DOMAIN shipments
        /\ shipments[req[r].id].status = "ARCHIVED"
        /\ shipments[req[r].id].companyId = InitShipments[req[r].id].companyId
        /\ OfShipment(expenses, req[r].id) # {}
        /\ \E d \in DOMAIN documents : documents[d].shipmentId = req[r].id
        /\ \E i \in DOMAIN timeline : timeline[i].shipmentId = req[r].id
        /\ Cardinality(DOMAIN shipments) > Cardinality(ShipIds)

\* C25: a shipment whose status is ARCHIVED keeps it in every step of an update
\* or an archive, and no step takes a shipment from CLOSED to ARCHIVED.
C25_Step ==
    \A sid \in DOMAIN shipments :
        /\ shipments[sid].status = "ARCHIVED" => shipments'[sid].status = "ARCHIVED"
        /\ shipments[sid].status = "CLOSED" => shipments'[sid].status # "ARCHIVED"

C25_ArchivedIsTerminal == [][C25_Step]_vars

\* C26: the user a request is let in as is the stored row of the token's
\* userId at the time of the request, with the stored role and company whatever
\* the token says, and a request whose user is not stored, not active or not
\* verified gets no further than the guard: it is answered 401.
C26_Step ==
    /\ \A r \in Reqs, c \in GuardCredentials :
            Arrive(r, c[1], c[2]) /\ req'[r].pc = "authed"
            => LET id == (IF c[1].present THEN c[1] ELSE c[2]).userId
                   u == req'[r].user
               IN  /\ u.found <=> id \in DOMAIN users
                   /\ u.found =>
                        /\ u.id = id
                        /\ u.role = users[id].role
                        /\ u.companyId = users[id].companyId
                        /\ u.isActive = users[id].isActive
                        /\ u.emailVerified = users[id].emailVerified
    /\ \A r \in Reqs :
            /\ req[r].pc = "authed"
            /\ req'[r] # req[r]
            /\ ~(req[r].user.found /\ req[r].user.isActive /\ req[r].user.emailVerified)
            => /\ req'[r].pc = "done"
               /\ req'[r].status = 401
               /\ req'[r].kind = "none"
               /\ store' = store

C26_GuardReadsStore == [][C26_Step]_vars

\* The agent, whose tokens say AGENT, is stored as CLIENT and was refused the
\* creation of a shipment as a CLIENT; the director has been deactivated and a
\* request was answered ACCOUNT_DISABLED (no other user whose token is presented
\* is inactive).
C26_Witness ==
    \E r, q \in Reqs :
        /\ req[r].pc = "done" /\ req[r].status = 403
        /\ req[r].kind = "createShipment"
        /\ req[r].user.id = "agtA" /\ req[r].user.role = "CLIENT"
        /\ SeedClaims("agtA").role = "AGENT"
        /\ req[q].pc = "done" /\ req[q].status = 401
        /\ req[q].code = "ACCOUNT_DISABLED"
        /\ ~users["dirA"].isActive /\ users["agtA"].isActive

\* the code the guard owes to a request, by the first cause that applies
GuardOwes(present, signed, expired, found, active, verified) ==
    CASE ~present -> "NO_TOKEN"
      [] present /\ ~signed -> "INVALID_TOKEN"
      [] present /\ signed /\ expired -> "TOKEN_EXPIRED"
      [] OTHER -> IF ~found THEN "USER_NOT_FOUND"
                  ELSE IF ~active THEN "ACCOUNT_DISABLED"
                  ELSE IF ~verified THEN "EMAIL_NOT_VERIFIED"
                  ELSE "ok"

\* C27: each cause of rejection has its own code: no token NO_TOKEN, a token
\* not signed with the access secret INVALID_TOKEN, a well-signed token past its
\* expiry TOKEN_EXPIRED, then USER_NOT_FOUND, ACCOUNT_DISABLED and
\* EMAIL_NOT_VERIFIED for the user fetched; every rejection is a 401; and a
\* request with a cookie is answered as if it had no header.
C27_Step ==
    /\ \A r \in Reqs, c \in GuardCredentials :
            Arrive(r, c[1], c[2])
            => LET t == IF c[1].present THEN c[1] ELSE c[2]
                   owed == GuardOwes(t.present, t.secret = "JWT", now >= t.exp,
                                     TRUE, TRUE, TRUE)
               IN  /\ IF owed = "ok" THEN req'[r].pc = "authed"
                      ELSE /\ req'[r].pc = "done"
                           /\ req'[r].status = 401
                           /\ req'[r].code = owed
                   /\ c[1].present => Arrive(r, c[1], NoToken)
    /\ \A r \in Reqs :
            /\ req[r].pc = "authed"
            /\ req'[r].pc = "done"
            /\ req'[r].status = 401
            => LET u == req[r].user
               IN  req'[r].code = GuardOwes(TRUE, TRUE, FALSE, u.found, u.isActive,
                                            u.emailVerified)

C27_RejectionCodes == [][C27_Step]_vars

\* a request was answered TOKEN_EXPIRED and another EMAIL_NOT_VERIFIED
C27_Witness ==
    \E r, q \in Reqs :
        /\ req[r].pc = "done" /\ req[r].status = 401 /\ req[r].code = "TOKEN_EXPIRED"
        /\ req[q].pc = "done" /\ req[q].status = 401 /\ req[q].code = "EMAIL_NOT_VERIFIED"

\* C28: no two stored shipments have the same tracking identifier, whether
\* they were created in the same millisecond or in different ones.
C28_TrackingUnique ==
    \A i, j \in DOMAIN shipments :
        i # j => shipments[i].trackingNumber # shipments[j].trackingNumber

\* the nearest integer to v * n / d, a half going up
HalfUp(v, n, d) ==
    LET part == (v % d) * n
    IN  (v \div d) * n + part \div d + (IF 2 * (part % d) >= d THEN 1 ELSE 0)

\* C29: a calculation answered for a positive CIF value in USD, EUR or GNF
\* gives DD, RTL, PC and CA as 35%, 2%, 0.5% and 0.25% of the converted value
\* and TVA as 18% of the converted value plus DD, each rounded half up, BFU by
\* the two thresholds and totalDuties as the sum of the six, and the step
\* changes nothing stored.
C29_Step ==
    \A r \in Reqs :
        /\ req[r].pc = "authed"
        /\ req'[r].pc = "done"
        /\ req'[r].kind = "calculateCustoms"
        /\ req'[r].status = 200
        /\ req'[r].duties.cifCurrency \in {"USD", "EUR", "GNF"}
        => LET out == req'[r].duties
               gnf == out.cifValue * (CASE out.cifCurrency = "USD" -> 8646
                                        [] out.cifCurrency = "EUR" -> 9400
                                        [] out.cifCurrency = "GNF" -> 1)
           IN  /\ out.dd = HalfUp(gnf, 35, 100)
               /\ out.rtl = HalfUp(gnf, 2, 100)
               /\ out.pc = HalfUp(gnf, 5, 1000)
               /\ out.ca = HalfUp(gnf, 25, 10000)
               /\ out.tva = HalfUp(gnf + out.dd, 18, 100)
               /\ out.bfu = (IF gnf > 100000000 THEN 500000
                             ELSE IF gnf > 50000000 THEN 350000 ELSE 200000)
               /\ out.totalDuties =
                    out.dd + out.rtl + out.pc + out.ca + out.tva + out.bfu
               /\ UNCHANGED store

C29_Calculator == [][C29_Step]_vars

\* C30: a user whom verify-email has verified has a stored refresh token: no
\* state holds a user verified since the initial state without a row of
\* sessions for that user.
C30_VerifiedHasCredential ==
    \A u \in DOMAIN users :
        /\ u \in DOMAIN InitUsers => ~InitUsers[u].emailVerified
        /\ users[u].emailVerified
        => \E i \in DOMAIN sessions : sessions[i].userId = u

\* C31: every stored expense has a strictly positive amount.
C31_AmountsPositive == \A i \in DOMAIN expenses : expenses[i].amount > 0

\* C32: a pay of an unpaid PROVISION of the caller's company goes to its write
\* whatever the balance of the shipment; the write, when the row is still as it
\* was read, is answered 200, sets paid and paidAt = now on that row alone and
\* leaves the balance of the shipment as it was.
C32_Step ==
    \A r \in Reqs :
        /\ ( /\ req[r].pc = "authed"
              /\ req'[r] # req[r]
              /\ req'[r].kind = "payExpense"
              /\ req'[r].id \in DOMAIN expenses
              /\ expenses[req'[r].id].shipmentId \in DOMAIN shipments
              /\ shipments[expenses[req'[r].id].shipmentId].companyId = req[r].user.companyId
              /\ expenses[req'[r].id].type = "PROVISION"
              /\ ~expenses[req'[r].id].paid )
            => req'[r].pc = "write"
        /\ ( /\ req[r].pc = "write"
              /\ req[r].kind = "payExpense"
              /\ req'[r] # req[r]
              /\ req[r].id \in DOMAIN expenses
              /\ expenses[req[r].id] = req[r].snap
              /\ req[r].snap.type = "PROVISION" )
            => LET id == req[r].id
                   sid == expenses[id].shipmentId
               IN  /\ req'[r].pc = "done"
                   /\ req'[r].status = 200
                   /\ expenses' = [expenses EXCEPT ![id].paid = TRUE, ![id].paidAt = now]
                   /\ ShipmentSummary(expenses', sid).balance =
                        ShipmentSummary(expenses, sid).balance

C32_PayProvision == [][C32_Step]_vars

\* a provision above the balance of its shipment has been paid: the balance the
\* pay read was below the amount, and the row is stored paid
C32_Witness ==
    \E r \in Reqs :
        /\ req[r].pc = "done"
        /\ req[r].kind = "payExpense"
        /\ req[r].status = 200
        /\ req[r].snap.type = "PROVISION"
        /\ req[r].bal < req[r].snap.amount
        /\ req[r].id \in DOMAIN expenses
        /\ expenses[req[r].id].paid
        /\ expenses[req[r].id].paidAt = now

\* C33: a refresh, answered 200 or 401, leaves every stored refresh token and
\* every user as they were; answered 200 it carries an access token and no
\* refresh token but the one presented, answered 401 no access token.
C33_Step ==
    /\ \A r \in Reqs :
            RefreshAnswers(r)
            => /\ sessions' = sessions
               /\ users' = users
               /\ store' = store
               /\ req'[r].status \in {200, 401}
               /\ req'[r].access.present <=> req'[r].status = 200
               /\ req'[r].access.present => req'[r].access.secret = "JWT"
    /\ \A r \in Reqs, token \in AuthTokens \cup {NoToken} :
            Refresh(r, token) => req'[r].refresh = token

C33_RefreshChangesNothing == [][C33_Step]_vars

\* a refresh has been answered 200 with an access token and another 401, and
\* the stored refresh tokens are the two of the initial state, unrevoked
C33_Witness ==
    \E r, q \in Reqs :
        /\ req[r].pc = "done" /\ req[r].kind = "refresh" /\ req[r].status = 200
        /\ req[r].access.present
        /\ req[q].pc = "done" /\ req[q].kind = "refresh" /\ req[q].status = 401
        /\ Len(sessions) = 2
        /\ \A i \in DOMAIN sessions : sessions[i].revokedAt = NoDate

\* the company that owns expense e: the company of its shipment
OwnerOf(ss, e) == IF e.shipmentId \in DOMAIN ss THEN ss[e.shipmentId].companyId ELSE "none"

\* C34: a step of a request of a user of company c creates, changes or removes
\* only shipments, expenses and documents of c, and what it changes stays in c:
\* no shipment changes company and no expense goes to a shipment of another
\* company.
C34_Step ==
    \A r \in Reqs :
        req'[r] # req[r] /\ req[r].pc \in {"authed", "write", "event"}
        => LET c == req[r].user.companyId
           IN  /\ \A sid \in DOMAIN shipments' :
                    IF sid \in DOMAIN shipments
                    THEN shipments'[sid] # shipments[sid]
                         => shipments[sid].companyId = c /\ shipments'[sid].companyId = c
                    ELSE shipments'[sid].companyId = c
               /\ \A id \in DOMAIN expenses :
                    id \notin DOMAIN expenses' \/ expenses'[id] # expenses[id]
                    => /\ OwnerOf(shipments, expenses[id]) = c
                       /\ id \in DOMAIN expenses' => OwnerOf(shipments', expenses'[id]) = c
               /\ \A id \in DOMAIN expenses' \ DOMAIN expenses :
                    OwnerOf(shipments', expenses'[id]) = c
               /\ documents' # documents
                    => \A d \in (DOMAIN documents \ DOMAIN documents')
                                 \cup (DOMAIN documents' \ DOMAIN documents) :
                        LET row == IF d \in DOMAIN documents THEN documents[d]
                                   ELSE documents'[d]
                        IN  OwnerOf(shipments, row) = c

C34_TenantWriteIsolation == [][C34_Step]_vars

\* C35: of a pay and a delete of the same expense at most one takes effect: a
\* delete answered 200 beside a pay of the same expense answered 200 has not
\* removed a paid row, and a pay answered 200 leaves its expense stored and paid.
C35_Step ==
    \A r \in Reqs :
        /\ req[r].pc = "write"
        /\ req'[r].pc = "done"
        /\ req'[r].status = 200
        => /\ req'[r].kind = "deleteExpense"
              => \A q \in Reqs \ {r} :
                    /\ req[q].kind = "payExpense"
                    /\ req[q].pc = "done"
                    /\ req[q].status = 200
                    /\ req[q].id = req[r].id
                    => ~expenses[req[r].id].paid
           /\ req'[r].kind = "payExpense"
              => req[r].id \in DOMAIN expenses' /\ expenses'[req[r].id].paid

C35_PayOrDelete == [][C35_Step]_vars

\* C36: no failed login is lost: every login that evaluates a wrong password
\* leaves the stored failure counter of its account one above what it was.
C36_Step ==
    \A r \in Reqs :
        /\ req[r].pc = "login"
        /\ req'[r].pc = "done"
        /\ req'[r].status = 401
        /\ req'[r].code \in {"INVALID_CREDENTIALS", "TOO_MANY_ATTEMPTS"}
        /\ req[r].account.found
        => users'[req[r].account.id].failedAttempts
                = users[req[r].account.id].failedAttempts + 1

C36_NoLostIncrement == [][C36_Step]_vars

\* C37: a login on an account whose stored lockedUntil lies in the future is
\* answered Locked and changes nothing stored, whatever the password: counter,
\* lock, verification code and refresh credentials stay as they were, and
\* nothing is issued.
C37_Step ==
    \A r \in Reqs :
        /\ LoginAnswers(r)
        /\ users[req[r].account.id].lockedUntil # NoDate
        /\ users[req[r].account.id].lockedUntil > now
        => /\ users' = users
           /\ sessions' = sessions
           /\ store' = store
           /\ req'[r].status = 423
           /\ req'[r].code = "LOCKED"
           /\ req'[r].access = NoToken
           /\ req'[r].refresh = NoToken

C37_LockedLoginChangesNothing == [][C37_Step]_vars

\* a login has been answered Locked on an account that is still locked, with
\* its counter at MaxFailed and no refresh credential stored for it since the
\* lock
C37_Witness ==
    \E r \in Reqs :
        /\ req[r].pc = "done"
        /\ req[r].kind = "login"
        /\ req[r].status = 423
        /\ req[r].email \in DOMAIN users
        /\ users[req[r].email].lockedUntil # NoDate
        /\ users[req[r].email].lockedUntil > now
        /\ users[req[r].email].failedAttempts = MaxFailed
        /\ users[req[r].email].verificationCode = NoCode

\* ------------------------------------------------------------ API client claims

\* C38: every call that is queued in refreshQueue while a refresh is under way
\* is eventually sent again and its promise settles, whether the refresh
\* succeeds or fails and whether the retry of the call that started the refresh
\* returns or throws.
C38_QueuedSettle ==
    \A c \in 1..NumCalls :
        (client.call[c].pc = "queued")
            ~> (client.call[c].pc \in {"resolved", "rejected"})

\* C39: at most one POST /auth/refresh is in flight, and isRefreshing is raised
\* exactly while a call is between the start of its refresh and the end of its
\* attempt, so that it is down again once the attempt is over, whether the
\* attempt returned or threw.
C39_OneRefresh ==
    /\ Cardinality({c \in 1..NumCalls : client.call[c].pc = "refresh"}) <= 1
    /\ client.isRefreshing
            <=> \E c \in 1..NumCalls : client.call[c].pc \in {"refresh", "retry"}

\* a call met an expired token while the refresh of another was in flight and
\* waits in the queue, and a third call has been through a whole attempt that
\* threw
C39_Witness ==
    \E c, d, e \in 1..NumCalls :
        /\ client.call[c].pc = "refresh"
        /\ client.call[d].pc = "queued"
        /\ client.call[e].pc = "rejected"
        /\ client.call[e].sent = 2

\* C40: no call is sent more than twice; a retry that is answered 401
\* TOKEN_EXPIRED is rejected with that ApiError and starts no refresh; a 401
\* with another code is rejected and starts no refresh, on a first try as on a
\* retry.
C40_Step ==
    /\ \A c \in 1..NumCalls : client'.call[c].sent <= 2
    /\ \A c \in 1..NumCalls, resp \in Responses :
            /\ Respond(c, resp)
            /\ resp.status = 401
            /\ client.call[c].isRetry \/ resp.code # "TOKEN_EXPIRED"
            => /\ client'.call[c].pc = "rejected"
               /\ client'.call[c].status = 401
               /\ client'.call[c].code = resp.code
               /\ client'.call[c].sent = client.call[c].sent
               /\ \A d \in 1..NumCalls :
                    client'.call[d].pc = "refresh" => client.call[d].pc = "refresh"

C40_RetryOnce == [][C40_Step]_vars

\* a call that was sent again after a refresh was answered 401 TOKEN_EXPIRED on
\* its retry and is rejected with it, having been sent twice
C40_Witness ==
    \E c \in 1..NumCalls :
        /\ client.call[c].pc = "rejected"
        /\ client.call[c].isRetry
        /\ client.call[c].sent = 2
        /\ client.call[c].status = 401
        /\ client.call[c].code = "TOKEN_EXPIRED"

====
